---- MODULE Spec2Model ----
(***************************************************************************)
(* Model of the multimodal RAG demo: the per-user vector store written by  *)
(* api/services/document_service.py and read by                            *)
(* api/services/search_service.py, the HTTP layer of api/main.py, and the  *)
(* single-process service of api.py.                                       *)
(***************************************************************************)
EXTENDS Integers, Sequences, FiniteSets, TLC

\* ------------------------------------------------------------- bounds
\* Vectors stored over all users' index files together.
MaxSlots == 3
\* Document ids handed out (uuid4 calls of _process_single_document).
MaxDocs == 3
\* settings.RATE_LIMIT_PER_MINUTE and window_size, scaled down, and the
\* clock ticks and requests of a run of the rate limiter.
RateLimitPerMinute == 2
WindowSize == 2
MaxTime == 3
MaxRequests == 4
\* API keys AuthService hands out, the two initial ones included.
MaxKeys == 4

\* ------------------------------------------------------------ domains
Users == {"u1", "u2"}
\* The ids of the tasks upload requests create.
TaskIds == {1, 2}
\* An embedding is a tuple of coordinates; the empty tuple stands for None
\* (get_document_embedding / get_query_embedding returned no vector).
\* Two vectors of dimension 1 and one of dimension 2.
Vectors == {<<0>>, <<1>>, <<1, 1>>}
NoEmbedding == << >>
MaybeVectors == Vectors \cup {NoEmbedding}
ContentTypes == {"text", "image"}

\* What pdf_to_images / extract_text_from_pdf / get_document_embedding yield
\* for one uploaded file: decodable or not, the embedding of its text (when
\* it has text), and the embedding of each page image (no page, or one).
PageSeqs == {<< >>} \cup {<<v>> : v \in MaybeVectors}
Docs == {d \in [decodable : BOOLEAN, hasText : BOOLEAN,
                 textEmb : MaybeVectors, pageEmbs : PageSeqs] :
            /\ ~d.hasText => d.textEmb = NoEmbedding
            /\ ~d.decodable => ~d.hasText /\ d.pageEmbs = << >>}

\* API keys a request may carry: the key of u1, the key of u2, and a key
\* nobody was issued.
Keys == {"k1", "k2", "bad"}

\* hash_api_key: a digest that is different for different keys.
hash_api_key(api_key) == <<"sha256", api_key>>

\* Uploaded files: whether the name ends in .pdf, whether the size exceeds
\* MAX_FILE_SIZE_BYTES, and what the extractors and the embedder make of it.
TextDoc(v) == [decodable |-> TRUE, hasText |-> TRUE, textEmb |-> v,
               pageEmbs |-> << >>]
BrokenDoc == [decodable |-> FALSE, hasText |-> FALSE,
              textEmb |-> NoEmbedding, pageEmbs |-> << >>]
PdfFile(doc) == [pdf |-> TRUE, big |-> FALSE, doc |-> doc]
BigPdfFile == [pdf |-> TRUE, big |-> TRUE, doc |-> TextDoc(<<0>>)]
TxtFile == [pdf |-> FALSE, big |-> FALSE, doc |-> BrokenDoc]

\* The file lists of the upload requests: single files and pairs, with a
\* file that fails before, after or without one that succeeds.
FileLists ==
    {<<PdfFile(TextDoc(<<0>>))>>,
     <<TxtFile>>,
     <<BigPdfFile>>,
     <<PdfFile(BrokenDoc), PdfFile(TextDoc(<<0>>))>>,
     <<PdfFile(TextDoc(<<0>>)), PdfFile(TextDoc(<<1, 1>>))>>,
     <<PdfFile(TextDoc(<<1, 1>>)), PdfFile(TextDoc(<<0>>))>>,
     <<PdfFile(TextDoc(<<0>>)), TxtFile>>}

VARIABLES
    indexFile,   \* user -> the FAISS index file user_<id>.index
    metaFile,    \* user -> the metadata file user_<id>_metadata.json
    documents,   \* the documents table: set of DocumentInfo rows
    users,       \* the users table: user -> api_key_hash, is_active
    tasks,       \* the tasks table: set of TaskInfo rows
    run,         \* the background run of process_documents_async / the worker
    faiss_index,        \* api.py: the global index (None until loaded)
    docs_info,          \* api.py: the global metadata list
    processing_status,  \* api.py: document id -> status record
    dataDir,            \* api.py: DATA_DIR, the saved index and the uploads
    bgTasks,            \* api.py: process_document calls not yet run
    redis_client,       \* RateLimiter.redis_client is set (not None)
    rateKeys,           \* Redis: user -> members of rate_limit:<user>
    now,                \* time.time()
    served,             \* history: the requests check_rate_limit let pass
    issued,             \* history: the API keys handed out and the users revoked
    deleted,            \* history: ids delete_document reported deleted
    clearLog,           \* history: api.py since the last clear_all_documents
    writers,            \* server process -> its _save_embeddings call in progress
    resp         \* the outcome of the last operation, as its caller sees it

apiVars == <<indexFile, metaFile, documents, users, issued, tasks, run>>
appVars == <<faiss_index, docs_info, processing_status, dataDir, bgTasks>>
rateVars == <<redis_client, rateKeys, now, served>>
vars == <<apiVars, appVars, rateVars, deleted, clearLog, writers, resp>>

\* ------------------------------------------------------------- helpers
SetMax(S) == IF S = {} THEN 0 ELSE CHOOSE m \in S : \A x \in S : x <= m

NoIndexFile == [exists |-> FALSE, d |-> 0, vecs |-> << >>]
NoMetaFile == [exists |-> FALSE, items |-> << >>]

\* ntotal of the persisted index and len() of the persisted metadata list.
SlotCount(u) == Len(indexFile[u].vecs)
MetaCount(u) == Len(metaFile[u].items)
TotalSlots == SlotCount("u1") + SlotCount("u2")

\* uuid.uuid4(): an id no stored record or row carries.
FreshDocId ==
    1 + SetMax({metaFile[ui[1]].items[ui[2]].parent_doc_id :
                    ui \in {vj \in Users \X (1 .. MaxSlots + 1) :
                              vj[2] <= MetaCount(vj[1])}}
               \cup {r.id : r \in documents})

NoResp == [op |-> "none", user |-> "u1", status |-> 0, error |-> "none",
           n |-> 0, dims |-> {}, preDim |-> 0, preSlots |-> 0, preMeta |-> 0,
           k |-> 0, results |-> << >>,
           answer |-> "none", evidence |-> << >>,
           embedded |-> FALSE, searched |-> FALSE, generated |-> FALSE,
           genFailed |-> FALSE, indexEmpty |-> FALSE,
           cred |-> "", ran |-> FALSE, taskCreated |-> FALSE,
           nonPdf |-> FALSE, task_id |-> 0, task |-> {},
           persisted |-> FALSE, memIndex |-> [d |-> 0, vecs |-> << >>],
           memMeta |-> << >>, batch |-> << >>]

NoRun == [active |-> FALSE, kind |-> "api", task |-> 0, user |-> "u1",
          files |-> << >>, i |-> 0, log |-> << >>, processed |-> 0,
          done |-> FALSE]

\* No clear_all_documents so far. cleared: a clear has returned and no
\* document uploaded after it has been processed yet; stale: the
\* process_document calls pending when it returned that have not run yet.
NoClear == [cleared |-> FALSE, stale |-> {}]

\* uvicorn.run(..., workers=4): the server processes that share the index
\* files; two of them are enough to interleave.
Procs == {"p1", "p2"}

\* A process with no _save_embeddings call in progress. phase: "idle",
\* "loaded" (lines 179-204 done: index and metadata in memory, batch
\* appended), "indexed" (line 207 done: index file written). done: the
\* documents whose call has returned in this process.
NoWriter == [phase |-> "idle", user |-> "u1", doc_id |-> 0,
             index |-> [d |-> 0, vecs |-> << >>], meta |-> << >>,
             done |-> {}]

\* ------------------------------------------------ _save_embeddings
\* The dimensions of the vectors of a batch.
BatchDims(batch) == {Len(batch[i].embedding) : i \in 1 .. Len(batch)}

\* np.array(...).astype("float32") of a ragged list raises.
Ragged(batch) == \E i, j \in 1 .. Len(batch) :
                    Len(batch[i].embedding) # Len(batch[j].embedding)

\* Lines 179-189: the index the call starts from: the one read from the
\* index file, or a new IndexFlatL2 of the first item's dimension.
LoadedIndex(idx, batch) ==
    IF idx.exists THEN [d |-> idx.d, vecs |-> idx.vecs]
    ELSE [d |-> Len(batch[1].embedding), vecs |-> << >>]

\* Lines 183-184 and 189: the metadata list the call starts from.
LoadedMeta(idx, meta) == IF idx.exists THEN meta.items ELSE << >>

\* The call raises: the metadata file is missing beside an existing index
\* (open() fails), the batch is ragged, or index.add() gets vectors of
\* another dimension than the index's.
SaveRaises(idx, meta, batch) ==
    \/ idx.exists /\ ~meta.exists
    \/ Ragged(batch)
    \/ Len(batch[1].embedding) # LoadedIndex(idx, batch).d

\* Lines 196-204: one metadata entry per item, in batch order.
MetaEntries(doc_id, batch) ==
    [i \in 1 .. Len(batch) |->
        [doc_id |-> batch[i].doc_id,
         content_type |-> batch[i].content_type,
         page |-> batch[i].page,
         parent_doc_id |-> doc_id]]

\* Lines 192-193: the index in memory after index.add(vectors).
InMemoryIndex(idx, batch) ==
    [d |-> LoadedIndex(idx, batch).d,
     vecs |-> LoadedIndex(idx, batch).vecs
              \o [i \in 1 .. Len(batch) |-> batch[i].embedding]]

\* Mutant: the new entries are put in front of the list.
InMemoryMetaPrepend(idx, meta, doc_id, batch) ==
    MetaEntries(doc_id, batch) \o LoadedMeta(idx, meta)

\* Lines 196-204: the metadata list in memory after the appends.
InMemoryMeta(idx, meta, doc_id, batch) ==
    LoadedMeta(idx, meta) \o MetaEntries(doc_id, batch)

\* Mutant: the vectors are written last first.
RECURSIVE FlattenReversed(_)
FlattenReversed(vecs) ==
    IF vecs = << >> THEN << >> ELSE FlattenReversed(Tail(vecs)) \o Head(vecs)

\* The vectors of a flat index laid end to end, as IndexFlat stores them.
RECURSIVE Flatten(_)
Flatten(vecs) ==
    IF vecs = << >> THEN << >> ELSE Head(vecs) \o Flatten(Tail(vecs))

\* faiss.write_index of an IndexFlatL2 (line 207): the file holds the
\* dimension, the vector count and the flat array of components.
write_index(index) ==
    [d |-> index.d, ntotal |-> Len(index.vecs), xb |-> Flatten(index.vecs)]

\* faiss.read_index (lines 182, search_service.py 207): the flat array cut
\* back into ntotal vectors of d components.
read_index(file) ==
    [d |-> file.d,
     vecs |-> [i \in 1 .. file.ntotal |->
                  SubSeq(file.xb, (i - 1) * file.d + 1, i * file.d)]]

\* json.dump of one metadata entry (line 211): strings and numbers are
\* written as JSON values, a page of None (0 here) as null.
json_dump_entry(e) ==
    [doc_id |-> [type |-> "string", val |-> e.doc_id],
     content_type |-> [type |-> "string", val |-> e.content_type],
     page |-> IF e.page = 0 THEN [type |-> "null", val |-> << >>]
              ELSE [type |-> "number", val |-> e.page],
     parent_doc_id |-> [type |-> "string", val |-> e.parent_doc_id]]

json_dump(metadata) ==
    [i \in 1 .. Len(metadata) |-> json_dump_entry(metadata[i])]

\* json.load of one entry (line 184, search_service.py 132-133).
json_load_entry(j) ==
    [doc_id |-> j.doc_id.val,
     content_type |-> j.content_type.val,
     page |-> IF j.page.type = "null" THEN 0 ELSE j.page.val,
     parent_doc_id |-> j.parent_doc_id.val]

json_load(text) == [i \in 1 .. Len(text) |-> json_load_entry(text[i])]

\* Lines 192-193 and 207: the index written back; the record holds what
\* read_index gives for the file written.
SavedIndexFile(idx, batch) ==
    LET index == read_index(write_index(InMemoryIndex(idx, batch)))
    IN  [exists |-> TRUE, d |-> index.d, vecs |-> index.vecs]

\* Mutant: the last entry of the batch is not written.
SavedMetaFileShort(idx, meta, doc_id, batch) ==
    [exists |-> TRUE,
     items |-> LoadedMeta(idx, meta)
               \o SubSeq(MetaEntries(doc_id, batch), 1, Len(batch) - 1)]

\* Lines 196-204 and 210-211: the metadata list written back.
SavedMetaFile(idx, meta, doc_id, batch) ==
    [exists |-> TRUE,
     items |-> json_load(json_dump(InMemoryMeta(idx, meta, doc_id, batch)))]

\* Mutant: the vectors are checked one by one while they are written, so a
\* rejected batch leaves its first vector in the index file.
SaveEmbeddingsPartial(idx, meta, doc_id, batch) ==
    IF SaveRaises(idx, meta, batch)
    THEN [raised |-> TRUE,
          index |-> [idx EXCEPT !.vecs = idx.vecs \o <<batch[1].embedding>>],
          meta |-> meta]
    ELSE [raised |-> FALSE,
          index |-> SavedIndexFile(idx, batch),
          meta |-> SavedMetaFile(idx, meta, doc_id, batch)]

\* _save_embeddings(doc_id, embeddings_data, user_id) on the files idx, meta:
\* whether it raises, and the two files it leaves.
SaveEmbeddings(idx, meta, doc_id, batch) ==
    IF SaveRaises(idx, meta, batch)
    THEN [raised |-> TRUE, index |-> idx, meta |-> meta]
    ELSE [raised |-> FALSE,
          index |-> SavedIndexFile(idx, batch),
          meta |-> SavedMetaFile(idx, meta, doc_id, batch)]

\* ---------------------------------------- _process_single_document
\* Lines 114-123: the text item, when the text is not blank and has an
\* embedding.
TextItems(doc_id, doc) ==
    IF doc.hasText /\ doc.textEmb # NoEmbedding
    THEN <<[embedding |-> doc.textEmb, doc_id |-> <<doc_id, 0>>,
            content_type |-> "text", page |-> 0]>>
    ELSE << >>

\* Lines 126-141: one item per page whose image has an embedding, pages
\* numbered from 1.
RECURSIVE ImageItems(_, _, _)
ImageItems(doc_id, pages, p) ==
    IF p > Len(pages) THEN << >>
    ELSE (IF pages[p] # NoEmbedding
          THEN <<[embedding |-> pages[p], doc_id |-> <<doc_id, p>>,
                  content_type |-> "image", page |-> p]>>
          ELSE << >>)
         \o ImageItems(doc_id, pages, p + 1)

\* Mutant: a document with an item that has no embedding yields no item.
EmbeddingsDataAllOrNone(doc_id, doc) ==
    IF \/ doc.hasText /\ doc.textEmb = NoEmbedding
       \/ \E p \in 1 .. Len(doc.pageEmbs) : doc.pageEmbs[p] = NoEmbedding
    THEN << >>
    ELSE TextItems(doc_id, doc) \o ImageItems(doc_id, doc.pageEmbs, 1)

\* Lines 109-141: embeddings_data, the text item first.
EmbeddingsData(doc_id, doc) ==
    TextItems(doc_id, doc) \o ImageItems(doc_id, doc.pageEmbs, 1)

\* Lines 110-111, 122 and 141: the counters stored in the DocumentInfo.
text_chunks(doc) == IF doc.hasText /\ doc.textEmb # NoEmbedding THEN 1 ELSE 0

image_chunks(doc) ==
    Cardinality({p \in 1 .. Len(doc.pageEmbs) : doc.pageEmbs[p] # NoEmbedding})

\* _process_single_document(file, user_id) on the files idx, meta: the error
\* it raises ("none" when it returns), and the files and table row it leaves.
\* dbOk: _save_document_info commits.
ProcessSingle(idx, meta, doc_id, u, doc, dbOk) ==
    LET data == EmbeddingsData(doc_id, doc)
        saved == IF data = << >>
                 THEN [raised |-> FALSE, index |-> idx, meta |-> meta]
                 ELSE SaveEmbeddings(idx, meta, doc_id, data)
    IN  IF ~doc.decodable
        THEN [error |-> "decode", index |-> idx, meta |-> meta, rows |-> {}]
        ELSE IF saved.raised
        THEN [error |-> "save", index |-> saved.index, meta |-> saved.meta,
              rows |-> {}]
        ELSE IF ~dbOk
        THEN [error |-> "db", index |-> saved.index, meta |-> saved.meta,
              rows |-> {}]
        ELSE [error |-> "none", index |-> saved.index, meta |-> saved.meta,
              rows |-> {[id |-> doc_id, user_id |-> u]}]

\* The call reaches lines 207-211 and writes both files.
Persists(idx, meta, doc_id, doc) ==
    /\ doc.decodable
    /\ EmbeddingsData(doc_id, doc) # << >>
    /\ ~SaveRaises(idx, meta, EmbeddingsData(doc_id, doc))

\* One call of _process_single_document on behalf of user u.
ProcessSingleDocument(u, doc, dbOk) ==
    LET doc_id == FreshDocId
        out == ProcessSingle(indexFile[u], metaFile[u], doc_id, u, doc, dbOk)
    IN  /\ TotalSlots + Len(EmbeddingsData(doc_id, doc)) <= MaxSlots
        /\ doc_id <= MaxDocs
        /\ indexFile' = [indexFile EXCEPT ![u] = out.index]
        /\ metaFile' = [metaFile EXCEPT ![u] = out.meta]
        /\ documents' = documents \cup out.rows
        /\ UNCHANGED <<writers, clearLog, deleted, rateVars, appVars, users, issued, tasks, run>>
        /\ resp' = [NoResp EXCEPT
                      !.op = "process", !.user = u, !.error = out.error,
                      !.n = Len(EmbeddingsData(doc_id, doc)),
                      !.dims = BatchDims(EmbeddingsData(doc_id, doc)),
                      !.preDim = indexFile[u].d,
                      !.preSlots = SlotCount(u), !.preMeta = MetaCount(u),
                      !.persisted = Persists(indexFile[u], metaFile[u], doc_id, doc),
                      !.memIndex =
                          IF Persists(indexFile[u], metaFile[u], doc_id, doc)
                          THEN InMemoryIndex(indexFile[u],
                                             EmbeddingsData(doc_id, doc))
                          ELSE NoResp.memIndex,
                      !.memMeta =
                          IF Persists(indexFile[u], metaFile[u], doc_id, doc)
                          THEN InMemoryMeta(indexFile[u], metaFile[u], doc_id,
                                            EmbeddingsData(doc_id, doc))
                          ELSE NoResp.memMeta]

\* faiss.write_index (line 207) is done and the process stops before the
\* metadata is dumped (lines 210-211): the index file is the new one, the
\* metadata file the old one.
SaveInterrupted(u, doc) ==
    LET doc_id == FreshDocId
        data == EmbeddingsData(doc_id, doc)
    IN  /\ TotalSlots + Len(data) <= MaxSlots
        /\ doc_id <= MaxDocs
        /\ doc.decodable /\ data # << >>
        /\ ~SaveRaises(indexFile[u], metaFile[u], data)
        /\ indexFile' = [indexFile EXCEPT
                            ![u] = SavedIndexFile(indexFile[u], data)]
        /\ resp' = [NoResp EXCEPT !.op = "interrupted", !.user = u]
        /\ UNCHANGED <<writers, clearLog, deleted, rateVars, appVars, metaFile, documents, users, issued, tasks, run>>

\* The document a server process is given in the runs of concurrent inserts:
\* p1 stores texts embedded as <<0>>, p2 texts embedded as <<1>>.
WriterDoc(p) == IF p = "p1" THEN TextDoc(<<0>>) ELSE TextDoc(<<1>>)

\* uuid.uuid4() in a process while other calls are in progress.
FreshWriterId ==
    1 + SetMax({FreshDocId - 1}
               \cup {writers[p].doc_id : p \in Procs}
               \cup UNION {writers[p].done : p \in Procs})

\* _save_embeddings in process p, lines 179-204: the files are read and the
\* batch is appended to the index and the metadata list in memory.
BeginSave(p, u) ==
    LET doc_id == FreshWriterId
        data == EmbeddingsData(doc_id, WriterDoc(p))
    IN  /\ writers[p].phase = "idle"
        /\ doc_id <= MaxDocs
        /\ SlotCount(u) + Len(data) <= MaxSlots
        /\ Persists(indexFile[u], metaFile[u], doc_id, WriterDoc(p))
        /\ writers' = [writers EXCEPT
                          ![p] = [@ EXCEPT
                                    !.phase = "loaded", !.user = u,
                                    !.doc_id = doc_id,
                                    !.index = InMemoryIndex(indexFile[u], data),
                                    !.meta = InMemoryMeta(indexFile[u],
                                                          metaFile[u],
                                                          doc_id, data)]]
        /\ resp' = [NoResp EXCEPT !.op = "saving"]
        /\ UNCHANGED <<clearLog, deleted, rateVars, appVars, apiVars>>

\* Line 207 in process p: faiss.write_index replaces the index file.
WriteIndex(p) ==
    LET w == writers[p]
        index == read_index(write_index(w.index))
    IN  /\ w.phase = "loaded"
        /\ indexFile' = [indexFile EXCEPT
                            ![w.user] = [exists |-> TRUE, d |-> index.d,
                                         vecs |-> index.vecs]]
        /\ writers' = [writers EXCEPT ![p].phase = "indexed"]
        /\ resp' = [NoResp EXCEPT !.op = "saving"]
        /\ UNCHANGED <<clearLog, deleted, rateVars, appVars, metaFile, documents, users, issued, tasks, run>>

\* Lines 210-211 in process p: json.dump replaces the metadata file; the
\* call returns and _process_single_document stores the document row.
DumpMetadata(p) ==
    LET w == writers[p]
    IN  /\ w.phase = "indexed"
        /\ metaFile' = [metaFile EXCEPT
                           ![w.user] = [exists |-> TRUE,
                                        items |-> json_load(json_dump(w.meta))]]
        /\ documents' = documents \cup {[id |-> w.doc_id, user_id |-> w.user]}
        /\ writers' = [writers EXCEPT
                          ![p] = [NoWriter EXCEPT
                                    !.done = w.done \cup {w.doc_id}]]
        /\ resp' = [NoResp EXCEPT !.op = "saving"]
        /\ UNCHANGED <<clearLog, deleted, rateVars, appVars, indexFile, users, issued, tasks, run>>

\* ------------------------------------------------ SearchService
\* Squared Euclidean distance, the metric of faiss.IndexFlatL2.
RECURSIVE L2Sq(_, _)
L2Sq(a, b) ==
    IF a = << >> THEN 0
    ELSE (Head(a) - Head(b)) * (Head(a) - Head(b)) + L2Sq(Tail(a), Tail(b))

\* The slots of S (1-based here), nearest to q first; equal distances in
\* ascending slot order (the heap of IndexFlat orders by (distance, id)).
RECURSIVE NearestFirst(_, _, _)
NearestFirst(vecs, q, S) ==
    IF S = {} THEN << >>
    ELSE LET best == CHOOSE s \in S : \A t \in S :
                        \/ L2Sq(vecs[s], q) < L2Sq(vecs[t], q)
                        \/ L2Sq(vecs[s], q) = L2Sq(vecs[t], q) /\ s <= t
         IN  <<best>> \o NearestFirst(vecs, q, S \ {best})

\* The distance faiss reports beside a missing neighbour (label -1).
PadScore == 10 ^ 6

\* index.search(np.array([q]), k): k (score, label) pairs, labels 0-based,
\* padded with label -1 when the index holds fewer than k vectors.
FaissSearch(index, q, k) ==
    LET order == NearestFirst(index.vecs, q, 1 .. Len(index.vecs))
    IN  [i \in 1 .. k |->
            IF i <= Len(order)
            THEN [idx |-> order[i] - 1,
                  score |-> L2Sq(index.vecs[order[i]], q)]
            ELSE [idx |-> 0 - 1, score |-> PadScore]]

\* _apply_filters(metadata, filters): filters is a dict, here a set of
\* clauses [key, isList, value]; a key the metadata lacks is skipped.
MetaKeys == {"doc_id", "content_type", "page", "parent_doc_id"}

\* Mutant: a list-valued filter is not looked at.
ApplyFiltersScalarOnly(meta, filters) ==
    \A f \in filters :
        (f.key \in MetaKeys /\ ~f.isList) => meta[f.key] = f.value

ApplyFilters(meta, filters) ==
    \A f \in filters :
        f.key \in MetaKeys =>
            IF f.isList THEN meta[f.key] \in f.value
            ELSE meta[f.key] = f.value

\* Mutant: the distance itself is handed out as the similarity.
SimilarityIsDistance(score) == [num |-> score, den |-> 1]

\* Line 168: 1 / (1 + score) as a fraction, or 0 for a negative score.
Similarity(score) ==
    IF score >= 0 THEN [num |-> 1, den |-> 1 + score]
    ELSE [num |-> 0, den |-> 1]

\* Lines 171-182: the SearchResult of one hit; slot is its label, kept to
\* state the ordering of the list.
MakeResult(hit, meta) ==
    [slot |-> hit.idx, score |-> hit.score,
     similarity_score |-> Similarity(hit.score),
     content_type |-> meta.content_type,
     source |-> meta.parent_doc_id, page |-> meta.page]

\* Mutant: each result is put in front of the list instead of behind it.
RECURSIVE ResultsLoopPrepend(_, _, _, _)
ResultsLoopPrepend(hits, i, metadata, filters) ==
    IF i > Len(hits) THEN << >>
    ELSE ResultsLoopPrepend(hits, i + 1, metadata, filters)
         \o (IF hits[i].idx >= Len(metadata) \/ hits[i].idx < 0
             THEN << >>
             ELSE IF filters # {} /\ ~ApplyFilters(metadata[hits[i].idx + 1],
                                                   filters)
             THEN << >>
             ELSE <<MakeResult(hits[i], metadata[hits[i].idx + 1])>>)

\* Lines 156-184: the loop over the hits, in the order faiss returned them.
RECURSIVE ResultsLoop(_, _, _, _)
ResultsLoop(hits, i, metadata, filters) ==
    IF i > Len(hits) THEN << >>
    ELSE (IF hits[i].idx >= Len(metadata) \/ hits[i].idx < 0
          THEN << >>
          ELSE IF filters # {} /\ ~ApplyFilters(metadata[hits[i].idx + 1],
                                                filters)
          THEN << >>
          ELSE <<MakeResult(hits[i], metadata[hits[i].idx + 1])>>)
         \o ResultsLoop(hits, i + 1, metadata, filters)

\* _vector_search: faiss raises on a query of another dimension (or k < 1),
\* and the except clause turns any error into an empty list.
VectorSearch(q, index, metadata, k, filters) ==
    IF Len(q) # index.d \/ k < 1 THEN << >>
    ELSE ResultsLoop(FaissSearch(index, q, k), 1, metadata, filters)

\* _load_user_index: (None, []) unless both files exist.
LoadUserIndex(idx, meta) ==
    IF ~idx.exists \/ ~meta.exists
    THEN [loaded |-> FALSE, index |-> [d |-> 0, vecs |-> << >>],
          metadata |-> << >>]
    ELSE [loaded |-> TRUE, index |-> [d |-> idx.d, vecs |-> idx.vecs],
          metadata |-> meta.items]

\* _generate_answer(query, search_results) for a non-empty list. gen is what
\* the environment does: "ok" / "fail" (answer_with_gemini returns / raises),
\* "nopreview" (the preview image file is gone).
GenerateAnswer(results, gen) ==
    LET best_result == results[1]
    IN  IF best_result.content_type = "image" /\ gen = "nopreview"
        THEN [answer |-> "unable", evidence |-> << >>, generated |-> FALSE,
              failed |-> FALSE]
        ELSE [answer |-> IF gen = "fail" THEN "generation_error"
                         ELSE "generated",
              evidence |-> <<best_result>>, generated |-> TRUE,
              failed |-> gen = "fail"]

\* SearchService.search(query, user_id, top_k, include_answer, filters);
\* q is what get_query_embedding(query) returned (a vector, or None).
SearchOutcome(idx, meta, q, k, include_answer, filters, gen) ==
    LET loaded == LoadUserIndex(idx, meta)
        search_results == VectorSearch(q, loaded.index, loaded.metadata,
                                       k, filters)
        base == [NoResp EXCEPT !.op = "search", !.status = 200, !.k = k,
                               !.embedded = TRUE, !.ran = TRUE,
                               !.indexEmpty = ~idx.exists \/ idx.vecs = << >>]
    IN  IF q = NoEmbedding THEN base
        ELSE IF ~loaded.loaded \/ loaded.metadata = << >>
        THEN [base EXCEPT !.answer = "no_documents"]
        ELSE IF include_answer /\ search_results # << >>
        THEN LET a == GenerateAnswer(search_results, gen)
             IN  [base EXCEPT !.searched = TRUE,
                              !.results = search_results,
                              !.answer = a.answer,
                              !.evidence = a.evidence,
                              !.generated = a.generated,
                              !.genFailed = a.failed]
        ELSE [base EXCEPT !.searched = TRUE, !.results = search_results]

\* Values a validated SearchRequest.top_k takes (ge=1, le=20).
TopKs == {1, 2, 20}
Filters == {{},
            {[key |-> "content_type", isList |-> FALSE, value |-> "text"]},
            {[key |-> "content_type", isList |-> TRUE, value |-> {"image"}]},
            {[key |-> "filename", isList |-> FALSE, value |-> "a.pdf"]}}
GenModes == {"ok", "fail", "nopreview"}

\* Mutant: one index and metadata file pair for all users.
SearchSharedIndex(u, q, k, include_answer, filters, gen) ==
    /\ resp' = [SearchOutcome(indexFile["u1"], metaFile["u1"], q, k,
                              include_answer, filters, gen)
                EXCEPT !.user = u]
    /\ UNCHANGED <<writers, clearLog, deleted, rateVars, appVars, indexFile, metaFile, documents, users, issued, tasks, run>>

\* POST /search for an authenticated user u.
Search(u, q, k, include_answer, filters, gen) ==
    /\ resp' = [SearchOutcome(indexFile[u], metaFile[u], q, k,
                              include_answer, filters, gen)
                EXCEPT !.user = u]
    /\ UNCHANGED <<writers, clearLog, deleted, rateVars, appVars, indexFile, metaFile, documents, users, issued, tasks, run>>

\* Mutant: the metadata file is opened for appending, which creates it when
\* it is absent.
BatchSearchTouching(u, queries, k, include_answer, filters, gen) ==
    /\ resp' = [NoResp EXCEPT
                  !.op = "batch_search", !.user = u, !.ran = TRUE, !.k = k,
                  !.batch = [i \in 1 .. Len(queries) |->
                                SearchOutcome(indexFile[u], metaFile[u],
                                              queries[i], k, include_answer,
                                              filters, gen)]]
    /\ metaFile' = [metaFile EXCEPT ![u].exists = TRUE]
    /\ UNCHANGED <<writers, clearLog, deleted, rateVars, appVars, indexFile, documents, users, issued, tasks, run>>

\* SearchService.batch_search(queries, user_id, options): one search per
\* query, in order, the responses collected in a list.
BatchSearch(u, queries, k, include_answer, filters, gen) ==
    /\ resp' = [NoResp EXCEPT
                  !.op = "batch_search", !.user = u, !.ran = TRUE, !.k = k,
                  !.batch = [i \in 1 .. Len(queries) |->
                                SearchOutcome(indexFile[u], metaFile[u],
                                              queries[i], k, include_answer,
                                              filters, gen)]]
    /\ UNCHANGED <<writers, clearLog, deleted, rateVars, appVars, indexFile, metaFile, documents, users, issued, tasks, run>>

\* ---------------------------------------------- api/main.py dependencies
\* AuthService.validate_api_key(api_key): the active users whose stored hash
\* is the hash of the key; nobody when the database query raises.
validate_api_key(api_key, dbUp) ==
    IF ~dbUp THEN {}
    ELSE {u \in DOMAIN users :
             /\ users[u].api_key_hash = hash_api_key(api_key)
             /\ users[u].is_active}

\* Lines 66-67 and 80: the members of rate_limit:<user> the sliding window
\* still holds, i.e. those zremrangebyscore(key, 0, now - window) keeps.
InWindow(u) == {t \in rateKeys[u] : t > now - WindowSize}

\* RateLimiter.check_limit(user_id): allowed without a Redis client, else
\* allowed while fewer than the limit are recorded in the window.
check_limit(u) ==
    IF ~redis_client THEN TRUE
    ELSE Cardinality(InWindow(u)) < RateLimitPerMinute

\* What check_limit leaves in Redis: the pipeline drops the expired members
\* and adds str(current_time), whether or not the request is then allowed.
\* Without a client nothing is written.
CheckLimitKeys(u) ==
    IF ~redis_client THEN rateKeys
    ELSE [rateKeys EXCEPT ![u] = InWindow(u) \cup {now}]

\* Mutant: the "if not user" test is missing.
get_current_user_open(api_key, dbUp) ==
    LET found == validate_api_key(api_key, dbUp)
    IN  IF found = {} THEN [status |-> 0, user |-> "u1"]
        ELSE [status |-> 0, user |-> CHOOSE u \in found : TRUE]

\* get_current_user(credentials): the user, or HTTP 401.
get_current_user(api_key, dbUp) ==
    LET found == validate_api_key(api_key, dbUp)
    IN  IF found = {} THEN [status |-> 401, user |-> "u1"]
        ELSE [status |-> 0, user |-> CHOOSE u \in found : TRUE]

\* check_rate_limit(user = Depends(get_current_user)).
check_rate_limit(api_key, dbUp) ==
    LET auth == get_current_user(api_key, dbUp)
    IN  IF auth.status # 0 THEN auth
        ELSE IF ~check_limit(auth.user)
        THEN [status |-> 429, user |-> auth.user]
        ELSE auth

\* A dependency raised: the endpoint function is not called. (The endpoint
\* actions leave rateKeys alone: lifespan never calls
\* rate_limiter.initialize(), so redis_client stays None and check_limit
\* writes nothing.)
Refused(op, api_key, auth) ==
    /\ resp' = [NoResp EXCEPT !.op = op, !.cred = api_key,
                              !.user = auth.user, !.status = auth.status]
    /\ UNCHANGED <<writers, clearLog, deleted, rateVars, appVars, indexFile, metaFile,
                   documents, users, issued, tasks, run>>

\* ------------------------------------------------------ upload endpoints
RECURSIVE BatchItems(_)
BatchItems(files) ==
    IF files = << >> THEN 0
    ELSE Len(EmbeddingsData(0, Head(files).doc)) + BatchItems(Tail(files))

\* The stores have room for whatever the batch may add.
BatchFits(files) ==
    /\ TotalSlots + BatchItems(files) <= MaxSlots
    /\ FreshDocId + Len(files) - 1 <= MaxDocs
    /\ Cardinality(tasks) + 1 \in TaskIds

\* TaskManager.create_document_processing_task(files, user_id).
NewTask(user_id) ==
    [id |-> Cardinality(tasks) + 1, user_id |-> user_id,
     status |-> "pending", progress |-> 0,
     completed_at |-> "None", error_message |-> "None"]

StartRun(kind, task_id, user_id, files) ==
    [active |-> TRUE, kind |-> kind, task |-> task_id, user |-> user_id,
     files |-> files, i |-> 0, log |-> << >>, processed |-> 0,
     done |-> FALSE]

\* The validation loop of upload_documents: 0 when every file passes.
ValidateFiles(files) ==
    IF \E j \in DOMAIN files : ~files[j].pdf \/ files[j].big
    THEN 400 ELSE 0

\* POST /documents/upload. saved: whether TaskManager._save_task succeeds.
UploadDocuments(api_key, dbUp, files, saved) ==
    LET auth == check_rate_limit(api_key, dbUp)
        task == NewTask(auth.user)
        base == [NoResp EXCEPT
                   !.op = "upload", !.cred = api_key, !.user = auth.user,
                   !.ran = TRUE, !.n = Len(files),
                   !.nonPdf = \E j \in DOMAIN files : ~files[j].pdf]
    IN  /\ ~run.active
        /\ IF auth.status # 0
           THEN Refused("upload", api_key, auth)
           ELSE IF ValidateFiles(files) # 0
           THEN /\ resp' = [base EXCEPT !.status = ValidateFiles(files)]
                /\ UNCHANGED <<writers, clearLog, deleted, rateVars, appVars, indexFile, metaFile, documents, users, issued,
                               tasks, run>>
           ELSE IF ~saved
           THEN /\ resp' = [base EXCEPT !.status = 500]
                /\ UNCHANGED <<writers, clearLog, deleted, rateVars, appVars, indexFile, metaFile, documents, users, issued,
                               tasks, run>>
           ELSE /\ BatchFits(files)
                /\ tasks' = tasks \cup {task}
                /\ run' = StartRun("api", task.id, auth.user, files)
                /\ resp' = [base EXCEPT !.status = 200,
                                        !.taskCreated = TRUE]
                /\ UNCHANGED <<writers, clearLog, deleted, rateVars, appVars, indexFile, metaFile, documents, users, issued>>

\* POST /n8n/webhook/upload: the webhook secret is the only check.
N8nWebhookUpload(secretOk, user_id, files, saved) ==
    LET task == NewTask(user_id)
        base == [NoResp EXCEPT
                   !.op = "n8n_upload", !.user = user_id, !.ran = TRUE,
                   !.n = Len(files),
                   !.nonPdf = \E j \in DOMAIN files : ~files[j].pdf]
    IN  /\ ~run.active
        /\ IF ~secretOk
           THEN /\ resp' = [base EXCEPT !.status = 401]
                /\ UNCHANGED <<writers, clearLog, deleted, rateVars, appVars, indexFile, metaFile, documents, users, issued,
                               tasks, run>>
           ELSE IF ~saved
           THEN /\ resp' = [base EXCEPT !.status = 200, !.error = "failed"]
                /\ UNCHANGED <<writers, clearLog, deleted, rateVars, appVars, indexFile, metaFile, documents, users, issued,
                               tasks, run>>
           ELSE /\ BatchFits(files)
                /\ tasks' = tasks \cup {task}
                /\ run' = StartRun("api", task.id, user_id, files)
                /\ resp' = [base EXCEPT !.status = 200,
                                        !.taskCreated = TRUE]
                /\ UNCHANGED <<writers, clearLog, deleted, rateVars, appVars, indexFile, metaFile, documents, users, issued>>

\* ----------------------------------------- process_documents_async loop
\* Mutant: a failed file ends the loop (break in place of continue).
LoopNextAbort(i, failed, total_files) == IF failed THEN total_files ELSE i + 1

\* for i, file in enumerate(files): the except branch ends in continue.
LoopNext(i, failed, total_files) == i + 1

BackgroundResp == [NoResp EXCEPT !.op = "background"]

\* One iteration of the loop of process_documents_async.
ProcessNextFile(dbOk) ==
    /\ run.active /\ run.kind = "api" /\ run.i < Len(run.files)
    /\ LET u == run.user
           doc == run.files[run.i + 1].doc
           doc_id == FreshDocId
           out == ProcessSingle(indexFile[u], metaFile[u], doc_id, u,
                                doc, dbOk)
           entry == [file |-> run.i + 1, error |-> out.error,
                     doc_id |-> doc_id,
                     n |-> Len(EmbeddingsData(doc_id, doc)),
                     dims |-> BatchDims(EmbeddingsData(doc_id, doc)),
                     preDim |-> indexFile[u].d,
                     preSlots |-> SlotCount(u)]
       IN  /\ indexFile' = [indexFile EXCEPT ![u] = out.index]
           /\ metaFile' = [metaFile EXCEPT ![u] = out.meta]
           /\ documents' = documents \cup out.rows
           /\ run' = [run EXCEPT
                        !.i = LoopNext(run.i, out.error # "none",
                                       Len(run.files)),
                        !.log = Append(@, entry),
                        !.processed = IF out.error = "none" THEN @ + 1
                                      ELSE @]
    /\ resp' = BackgroundResp
    /\ UNCHANGED <<writers, clearLog, deleted, rateVars, appVars, users, issued, tasks>>

\* The loop of the worker's process_documents_task. process_single_document
\* calls the coroutine functions _save_image_preview, _save_embeddings and
\* _save_document_info without awaiting them: nothing is stored.
WorkerProcessNext ==
    /\ run.active /\ run.kind = "worker" /\ run.i < Len(run.files)
    /\ LET doc == run.files[run.i + 1].doc
           error == IF doc.decodable THEN "none" ELSE "decode"
           entry == [file |-> run.i + 1, error |-> error,
                     doc_id |-> FreshDocId,
                     n |-> Len(EmbeddingsData(FreshDocId, doc)),
                     dims |-> BatchDims(EmbeddingsData(FreshDocId, doc)),
                     preDim |-> indexFile[run.user].d,
                     preSlots |-> SlotCount(run.user)]
       IN  run' = [run EXCEPT
                     !.i = LoopNext(run.i, error # "none", Len(run.files)),
                     !.log = Append(@, entry),
                     !.processed = IF error = "none" THEN @ + 1 ELSE @]
    /\ resp' = BackgroundResp
    /\ UNCHANGED <<writers, clearLog, deleted, rateVars, appVars, indexFile, metaFile, documents, users, issued, tasks>>

\* After the loop. _update_task_progress is a placeholder that only logs,
\* so the task row stays as created.
FinishRun ==
    /\ run.active /\ run.i >= Len(run.files)
    /\ run' = [run EXCEPT !.active = FALSE, !.done = TRUE]
    /\ resp' = BackgroundResp
    /\ UNCHANGED <<writers, clearLog, deleted, rateVars, appVars, indexFile, metaFile, documents, users, issued, tasks>>

\* The worker receives process_documents(files_data, user_id).
WorkerStart(user_id, files) ==
    /\ ~run.active
    /\ run' = StartRun("worker", 0, user_id, files)
    /\ resp' = BackgroundResp
    /\ UNCHANGED <<writers, clearLog, deleted, rateVars, appVars, indexFile, metaFile, documents, users, issued, tasks>>

\* ------------------------------------------------- the other endpoints
\* GET /documents.
ListDocuments(api_key, dbUp) ==
    LET auth == check_rate_limit(api_key, dbUp)
    IN  IF auth.status # 0 THEN Refused("list", api_key, auth)
        ELSE /\ resp' = [NoResp EXCEPT
                           !.op = "list", !.cred = api_key,
                           !.user = auth.user, !.ran = TRUE, !.status = 200,
                           !.n = Cardinality({r \in documents :
                                                r.user_id = auth.user})]
             /\ UNCHANGED <<writers, clearLog, deleted, rateVars, appVars, indexFile, metaFile, documents, users, issued, tasks,
                            run>>

\* DELETE /documents/{document_id}: DocumentService.delete_document removes
\* the row; the index and metadata files are not touched.
DeleteDocument(api_key, dbUp, document_id) ==
    LET auth == check_rate_limit(api_key, dbUp)
        doc == {r \in documents : r.id = document_id
                                  /\ r.user_id = auth.user}
    IN  IF auth.status # 0
        THEN Refused("delete", api_key, auth)
        ELSE /\ resp' = [NoResp EXCEPT
                           !.op = "delete", !.cred = api_key,
                           !.user = auth.user, !.ran = TRUE,
                           !.status = IF doc = {} THEN 404 ELSE 200]
             /\ documents' = documents \ doc
             /\ deleted' = deleted \cup {r.id : r \in doc}
             /\ UNCHANGED <<writers, clearLog, rateVars, appVars, indexFile, metaFile, users, issued,
                            tasks, run>>

\* Mutant: the filter on TaskInfo.user_id is missing.
get_task_status_any(task_id, user_id, readOk) ==
    IF ~readOk THEN {}
    ELSE {t \in tasks : t.id = task_id}

\* TaskManager.get_task_status(task_id, user_id): the task with that id and
\* that owner, or None; None as well when the query raises.
get_task_status(task_id, user_id, readOk) ==
    IF ~readOk THEN {}
    ELSE {t \in tasks : t.id = task_id /\ t.user_id = user_id}

\* GET /tasks/{task_id}.
GetTaskStatus(api_key, dbUp, task_id, readOk) ==
    LET auth == check_rate_limit(api_key, dbUp)
        task == get_task_status(task_id, auth.user, readOk)
    IN  IF auth.status # 0
        THEN /\ resp' = [NoResp EXCEPT !.op = "task", !.cred = api_key,
                                       !.user = auth.user,
                                       !.status = auth.status,
                                       !.task_id = task_id]
             /\ UNCHANGED <<writers, clearLog, deleted, rateVars, appVars, indexFile, metaFile,
                            documents, users, issued, tasks, run>>
        ELSE /\ resp' = [NoResp EXCEPT
                           !.op = "task", !.cred = api_key,
                           !.user = auth.user, !.ran = TRUE,
                           !.task_id = task_id, !.task = task,
                           !.status = IF task = {} THEN 404 ELSE 200]
             /\ UNCHANGED <<writers, clearLog, deleted, rateVars, appVars, indexFile, metaFile,
                            documents, users, issued, tasks, run>>

\* SearchRequest.top_k: Field(default=5, ge=1, le=20).
MaxTopK == 20
ValidTopK(top_k) == top_k >= 1 /\ top_k <= MaxTopK

\* POST /search: dependencies, then the body, then SearchService.search.
SearchDocuments(api_key, dbUp, q, top_k, gen) ==
    LET auth == check_rate_limit(api_key, dbUp)
        u == auth.user
    IN  /\ IF auth.status # 0 THEN resp' = [NoResp EXCEPT
                   !.op = "search", !.cred = api_key, !.user = u,
                   !.status = auth.status, !.k = top_k]
           ELSE IF ~ValidTopK(top_k)
           THEN resp' = [NoResp EXCEPT
                   !.op = "search", !.cred = api_key, !.user = u,
                   !.status = 422, !.k = top_k]
           ELSE resp' = [SearchOutcome(indexFile[u], metaFile[u], q, top_k,
                                       TRUE, {}, gen)
                         EXCEPT !.user = u, !.cred = api_key]
        /\ UNCHANGED <<writers, clearLog, deleted, rateVars, appVars, indexFile, metaFile, documents, users, issued, tasks, run>>

\* POST /n8n/webhook/search: SearchRequest(...) is built inside the try, so
\* a validation error becomes a success=False body.
N8nWebhookSearch(secretOk, user_id, q, top_k, gen) ==
    /\ IF ~secretOk
       THEN resp' = [NoResp EXCEPT !.op = "n8n_search", !.user = user_id,
                                   !.ran = TRUE, !.status = 401,
                                   !.k = top_k]
       ELSE IF ~ValidTopK(top_k)
       THEN resp' = [NoResp EXCEPT !.op = "n8n_search", !.user = user_id,
                                   !.ran = TRUE, !.status = 200,
                                   !.error = "failed", !.k = top_k]
       ELSE resp' = [SearchOutcome(indexFile[user_id], metaFile[user_id],
                                   q, top_k, TRUE, {}, gen)
                     EXCEPT !.op = "n8n_search", !.user = user_id]
    /\ UNCHANGED <<writers, clearLog, deleted, rateVars, appVars, indexFile, metaFile, documents, users, issued, tasks, run>>

\* ------------------------------------------------------- rate limiting
\* A request to an endpoint declared with Depends(check_rate_limit); served
\* records the time of each request the dependency let through.
RateLimitedRequest(api_key, dbUp) ==
    LET auth == check_rate_limit(api_key, dbUp)
    IN  /\ Len(served) < MaxRequests
        /\ rateKeys' = IF auth.status = 401 THEN rateKeys
                       ELSE CheckLimitKeys(auth.user)
        /\ served' = IF auth.status = 0
                     THEN Append(served, [user |-> auth.user, time |-> now])
                     ELSE served
        /\ resp' = [NoResp EXCEPT
                      !.op = "limited", !.cred = api_key,
                      !.user = auth.user, !.ran = auth.status = 0,
                      !.status = IF auth.status = 0 THEN 200
                                 ELSE auth.status]
        /\ UNCHANGED <<writers, clearLog, deleted, apiVars, appVars, redis_client, now>>

\* The clock advances.
Tick ==
    /\ now < MaxTime
    /\ now' = now + 1
    /\ resp' = BackgroundResp
    /\ UNCHANGED <<writers, clearLog, deleted, apiVars, appVars, redis_client, rateKeys, served>>

\* ================================================================ api.py
NoneIndex == [isNone |-> TRUE, d |-> 0, vecs |-> << >>]
NothingSaved == [exists |-> FALSE, d |-> 0, vecs |-> << >>, info |-> << >>]
EmptyDataDir == [saved |-> NothingSaved, uploads |-> {}]

\* core.document_utils.load_embeddings_and_info(): the saved index and
\* list, or (None, []) when nothing was saved.
load_embeddings_and_info(saved) ==
    IF saved.exists
    THEN [index |-> [isNone |-> FALSE, d |-> saved.d, vecs |-> saved.vecs],
          info |-> saved.info]
    ELSE [index |-> NoneIndex, info |-> << >>]

\* core.document_utils.save_embeddings_and_info(new_embeddings, docs_info):
\* insert the batch into the saved index, all or nothing, and persist the
\* index beside the list. raised: DimensionMismatch.
save_embeddings_and_info(saved, new_embeddings, info) ==
    IF \/ Ragged(new_embeddings)
       \/ saved.exists /\ BatchDims(new_embeddings) # {saved.d}
    THEN [raised |-> TRUE, saved |-> saved]
    ELSE [raised |-> FALSE,
          saved |-> [exists |-> TRUE,
                     d |-> Len(new_embeddings[1].embedding),
                     vecs |-> saved.vecs \o
                              [i \in 1 .. Len(new_embeddings) |->
                                  new_embeddings[i].embedding],
                     info |-> info]]

\* Lines 176-203: the entries process_document appends to docs_info.
InfoEntries(doc_id, new_embeddings) ==
    [i \in 1 .. Len(new_embeddings) |->
        [doc_id |-> new_embeddings[i].doc_id, source |-> doc_id,
         content_type |-> new_embeddings[i].content_type,
         page |-> new_embeddings[i].page]]

StatusIds == {st.id : st \in processing_status}
SetStatus(doc_id, status, count) ==
    {st \in processing_status : st.id # doc_id}
    \cup {[id |-> doc_id, status |-> status, embeddings_count |-> count]}

\* uuid.uuid4() in upload_document.
FreshAppId ==
    1 + SetMax(StatusIds \cup bgTasks
               \cup {docs_info[i].source : i \in 1 .. Len(docs_info)})

\* What api.py receives: a named file and what the extractors make of it.
AppFiles ==
    {PdfFile(TextDoc(<<0>>)), PdfFile(TextDoc(<<1, 1>>)),
     PdfFile([decodable |-> TRUE, hasText |-> TRUE, textEmb |-> <<1>>,
              pageEmbs |-> <<<<0>>>>]),
     PdfFile(BrokenDoc), TxtFile}

\* POST /api/documents/upload.
upload_document(file) ==
    LET doc_id == FreshAppId
        base == [NoResp EXCEPT !.op = "app_upload", !.ran = TRUE, !.n = 1,
                               !.nonPdf = ~file.pdf]
    IN  IF ~file.pdf
        THEN /\ resp' = [base EXCEPT !.status = 400]
             /\ UNCHANGED <<writers, clearLog, deleted, rateVars, apiVars, appVars>>
        ELSE /\ doc_id <= MaxDocs
             /\ Len(docs_info) + Len(EmbeddingsData(doc_id, file.doc))
                    <= MaxSlots
             /\ dataDir' = [dataDir EXCEPT
                              !.uploads = @ \cup {[id |-> doc_id,
                                                   doc |-> file.doc]}]
             /\ processing_status' = SetStatus(doc_id, "processing", 0)
             /\ bgTasks' = bgTasks \cup {doc_id}
             /\ resp' = [base EXCEPT !.status = 200, !.taskCreated = TRUE]
             /\ UNCHANGED <<writers, clearLog, deleted, rateVars, apiVars, faiss_index, docs_info>>

\* The except clause of process_document: it reads
\* processing_status[doc_id]["upload_time"], a KeyError once the entry has
\* been cleared, and then nothing is recorded.
StatusFailed(doc_id) ==
    IF doc_id \in StatusIds THEN SetStatus(doc_id, "failed", 0)
    ELSE processing_status

\* process_document(doc_id, file_path, filename), run by the event loop
\* without interruption (it awaits nothing).
process_document(doc_id) ==
    /\ doc_id \in bgTasks
    /\ bgTasks' = bgTasks \ {doc_id}
    /\ resp' = BackgroundResp
    /\ clearLog' = IF doc_id \in clearLog.stale
                   THEN [clearLog EXCEPT !.stale = @ \ {doc_id}]
                   ELSE [clearLog EXCEPT !.cleared = FALSE]
    /\ UNCHANGED <<writers, deleted, rateVars, apiVars>>
    /\ LET found == {f \in dataDir.uploads : f.id = doc_id}
       IN  IF found = {}
           THEN /\ processing_status' = StatusFailed(doc_id)
                /\ UNCHANGED <<faiss_index, docs_info, dataDir>>
           ELSE LET doc == (CHOOSE f \in found : TRUE).doc
                    new_embeddings == EmbeddingsData(doc_id, doc)
                    appended == docs_info
                                \o InfoEntries(doc_id, new_embeddings)
                    out == save_embeddings_and_info(dataDir.saved,
                                                    new_embeddings,
                                                    appended)
                IN  IF ~doc.decodable
                    THEN /\ processing_status' = StatusFailed(doc_id)
                         /\ UNCHANGED <<faiss_index, docs_info, dataDir>>
                    ELSE IF new_embeddings = << >>
                    THEN /\ processing_status' =
                                SetStatus(doc_id, "completed", 0)
                         /\ dataDir' = [dataDir EXCEPT
                                          !.uploads = @ \ found]
                         /\ UNCHANGED <<faiss_index, docs_info>>
                    ELSE IF out.raised
                    THEN /\ docs_info' = appended
                         /\ processing_status' = StatusFailed(doc_id)
                         /\ UNCHANGED <<faiss_index, dataDir>>
                    ELSE /\ docs_info' = appended
                         /\ faiss_index' =
                                load_embeddings_and_info(out.saved).index
                         /\ dataDir' = [saved |-> out.saved,
                                        uploads |-> dataDir.uploads \ found]
                         /\ processing_status' =
                                SetStatus(doc_id, "completed",
                                          Len(new_embeddings))

\* One entry of the list search_documents returns.
QueryResult(hit, info) ==
    [slot |-> hit.idx, score |-> hit.score,
     similarity_score |-> Similarity(hit.score),
     content_type |-> info.content_type,
     source |-> info.source, page |-> info.page]

RECURSIVE QueryResults(_, _, _)
QueryResults(hits, i, info) ==
    IF i > Len(hits) THEN << >>
    ELSE (IF hits[i].idx >= Len(info) \/ hits[i].idx < 0 THEN << >>
          ELSE <<QueryResult(hits[i], info[hits[i].idx + 1])>>)
         \o QueryResults(hits, i + 1, info)

\* core.search.search_documents(query, faiss_index, docs_info,
\* get_query_embedding, top_k): InvalidArgument for k <= 0 before anything is
\* computed, then the query embedding, then the k nearest slots with the
\* metadata they still have.
search_documents(q, index, info, top_k) ==
    IF top_k <= 0
    THEN [raised |-> TRUE, embedded |-> FALSE, searched |-> FALSE,
          results |-> << >>]
    ELSE IF q = NoEmbedding \/ Len(q) # index.d
    THEN [raised |-> TRUE, embedded |-> TRUE, searched |-> FALSE,
          results |-> << >>]
    ELSE [raised |-> FALSE, embedded |-> TRUE, searched |-> TRUE,
          results |-> QueryResults(FaissSearch(index, q, top_k), 1, info)]

RECURSIVE FirstOfType(_, _)
FirstOfType(results, t) ==
    IF results = << >> THEN << >>
    ELSE IF Head(results).content_type = t THEN <<Head(results)>>
    ELSE FirstOfType(Tail(results), t)

\* query_documents(request). gen: answer_with_gemini returns ("ok") or
\* raises GenerationUnavailable ("fail").
QueryOutcome(q, top_k, gen) ==
    LET base == [NoResp EXCEPT !.op = "query", !.ran = TRUE, !.k = top_k]
        found == search_documents(q, faiss_index, docs_info, top_k)
        computed == [base EXCEPT !.embedded = found.embedded,
                                 !.searched = found.searched]
        image_result == FirstOfType(found.results, "image")
        text_result == FirstOfType(found.results, "text")
        content == IF image_result # << >> THEN image_result
                   ELSE text_result
    IN  IF faiss_index.isNone
        THEN [base EXCEPT !.status = 400, !.error = "no_index",
                          !.indexEmpty = TRUE]
        ELSE IF found.raised
        THEN [computed EXCEPT !.status = 500, !.error = "failed"]
        ELSE IF found.results = << >>
        THEN [computed EXCEPT !.status = 200, !.answer = "no_relevant"]
        ELSE IF gen = "fail"
        THEN [computed EXCEPT !.status = 500, !.error = "failed",
                              !.evidence = content, !.generated = TRUE,
                              !.genFailed = TRUE]
        ELSE [computed EXCEPT !.status = 200, !.results = found.results,
                              !.answer = "generated",
                              !.evidence = content, !.generated = TRUE]

\* POST /api/query.
query_documents(q, top_k, gen) ==
    /\ resp' = QueryOutcome(q, top_k, gen)
    /\ UNCHANGED <<writers, clearLog, deleted, rateVars, apiVars, appVars>>

\* QueryRequest.top_k: int = 3, the value n8n_query_webhook passes.
DefaultTopK == 3

\* POST /webhook/n8n/query: HTTP 400 without a query field; an
\* HTTPException of query_documents passes through.
n8n_query_webhook(hasQuery, q, gen) ==
    /\ resp' = IF ~hasQuery
               THEN [NoResp EXCEPT !.op = "n8n_query", !.ran = TRUE,
                                   !.status = 400, !.k = DefaultTopK]
               ELSE [QueryOutcome(q, DefaultTopK, gen)
                     EXCEPT !.op = "n8n_query"]
    /\ UNCHANGED <<writers, clearLog, deleted, rateVars, apiVars, appVars>>

\* Mutant: the files of DATA_DIR are left in place.
clear_all_documents_in_memory ==
    /\ docs_info' = << >>
    /\ processing_status' = {}
    /\ faiss_index' = NoneIndex
    /\ clearLog' = [cleared |-> TRUE, stale |-> bgTasks]
    /\ resp' = [NoResp EXCEPT !.op = "clear", !.ran = TRUE, !.status = 200]
    /\ UNCHANGED <<writers, deleted, rateVars, apiVars, bgTasks, dataDir>>

\* DELETE /api/documents/clear.
clear_all_documents ==
    /\ docs_info' = << >>
    /\ processing_status' = {}
    /\ faiss_index' = NoneIndex
    /\ dataDir' = EmptyDataDir
    /\ clearLog' = [cleared |-> TRUE, stale |-> bgTasks]
    /\ resp' = [NoResp EXCEPT !.op = "clear", !.ran = TRUE, !.status = 200]
    /\ UNCHANGED <<writers, deleted, rateVars, apiVars, bgTasks>>

\* GET /api/documents/{document_id}/status.
get_document_status(document_id) ==
    /\ resp' = [NoResp EXCEPT
                  !.op = "status", !.ran = TRUE,
                  !.status = IF document_id \in StatusIds THEN 200 ELSE 404]
    /\ UNCHANGED <<writers, clearLog, deleted, rateVars, apiVars, appVars>>

Init ==
    /\ indexFile = [u \in Users |-> NoIndexFile]
    /\ metaFile = [u \in Users |-> NoMetaFile]
    /\ documents = {}
    /\ users = [u \in Users |->
                  IF u = "u1"
                  THEN [api_key_hash |-> hash_api_key("k1"),
                        is_active |-> TRUE]
                  ELSE [api_key_hash |-> hash_api_key("k2"),
                        is_active |-> FALSE]]
    /\ issued = [log |-> <<<<"u1", "k1">>, <<"u2", "k2">>>>,
                 revoked |-> {"u2"}]
    /\ tasks = {}
    /\ run = NoRun
    /\ faiss_index = NoneIndex
    /\ docs_info = << >>
    /\ processing_status = {}
    /\ dataDir = EmptyDataDir
    /\ bgTasks = {}
    /\ redis_client = FALSE
    /\ rateKeys = [u \in Users |-> {}]
    /\ now = 0
    /\ served = << >>
    /\ deleted = {}
    /\ clearLog = NoClear
    /\ writers = [p \in Procs |-> NoWriter]
    /\ resp = NoResp

\* The store under any sequence of document insertions.
NextIndex ==
    \E doc \in Docs, dbOk \in BOOLEAN :
        ProcessSingleDocument("u1", doc, dbOk)

SpecIndex == Init /\ [][NextIndex]_vars

\* Insertions of documents with some embedding, and searches of the store they leave.
NextSearch ==
    \/ \E doc \in {d \in Docs : EmbeddingsData(0, d) # << >>} :
          ProcessSingleDocument("u1", doc, TRUE)
    \/ \E doc \in Docs : SaveInterrupted("u1", doc)
    \/ \E q \in MaybeVectors, k \in TopKs, include_answer \in BOOLEAN,
          filters \in Filters :
          \E gen \in IF include_answer THEN GenModes ELSE {"ok"} :
              /\ resp.op # "search"
              /\ Search("u1", q, k, include_answer, filters, gen)

SpecSearch == Init /\ [][NextSearch]_vars

\* The endpoints of api/main.py, the background run and the worker.
RequestTopKs == {0, 1, 21}
\* (key presented, whether the users table can be read)
Credentials == {<<"k1", TRUE>>, <<"k1", FALSE>>, <<"k2", TRUE>>,
                <<"bad", TRUE>>}
WebhookFileLists == {<<PdfFile(TextDoc(<<0>>))>>, <<TxtFile>>}
WorkerFileLists == {<<PdfFile(TextDoc(<<0>>))>>,
                    <<PdfFile(BrokenDoc), PdfFile(TextDoc(<<0>>))>>}
NextUpload ==
    \/ \E c \in Credentials, files \in FileLists, saved \in BOOLEAN :
          UploadDocuments(c[1], c[2], files, saved)
    \/ \E secretOk \in BOOLEAN, files \in WebhookFileLists,
          saved \in BOOLEAN :
          N8nWebhookUpload(secretOk, "u1", files, saved)
    \/ \E dbOk \in BOOLEAN : ProcessNextFile(dbOk)
    \/ \E files \in WorkerFileLists : WorkerStart("u1", files)
    \/ WorkerProcessNext
    \/ FinishRun
    \/ \E c \in Credentials : ListDocuments(c[1], c[2])
    \/ \E c \in Credentials, id \in 1 .. MaxDocs :
          DeleteDocument(c[1], c[2], id)
    \/ \E c \in Credentials, id \in TaskIds :
          GetTaskStatus(c[1], c[2], id, TRUE)
    \/ \E c \in Credentials, top_k \in RequestTopKs :
          SearchDocuments(c[1], c[2], <<0>>, top_k, "ok")
    \/ \E secretOk \in BOOLEAN, top_k \in RequestTopKs :
          N8nWebhookSearch(secretOk, "u1", <<0>>, top_k, "ok")

SpecUpload == Init /\ [][NextUpload]_vars

\* The endpoints of api.py and its background task.
QueryTopKs == {0, 1, 2, 21}
NextApp ==
    \/ \E file \in AppFiles : upload_document(file)
    \/ \E doc_id \in 1 .. MaxDocs : process_document(doc_id)
    \/ \E q \in {<<0>>, NoEmbedding}, top_k \in QueryTopKs,
          gen \in {"ok", "fail"} : query_documents(q, top_k, gen)
    \/ \E hasQuery \in BOOLEAN, gen \in {"ok", "fail"} :
          n8n_query_webhook(hasQuery, <<0>>, gen)
    \/ clear_all_documents
    \/ \E document_id \in 1 .. MaxDocs : get_document_status(document_id)

SpecApp == Init /\ [][NextApp]_vars

\* Requests through check_rate_limit as time passes.
NextRate ==
    \/ \E c \in Credentials : RateLimitedRequest(c[1], c[2])
    \/ Tick

SpecRate == Init /\ [][NextRate]_vars

\* Tasks of both users (u2's come in through the n8n webhook, which takes
\* any user_id) and task-status requests.
NextTasks ==
    \/ \E c \in Credentials, saved \in BOOLEAN :
          UploadDocuments(c[1], c[2], <<PdfFile(TextDoc(<<0>>))>>, saved)
    \/ \E secretOk \in BOOLEAN, user_id \in Users, saved \in BOOLEAN :
          N8nWebhookUpload(secretOk, user_id, <<TxtFile>>, saved)
    \/ \E dbOk \in BOOLEAN : ProcessNextFile(dbOk)
    \/ FinishRun
    \/ \E c \in Credentials, id \in TaskIds, readOk \in BOOLEAN :
          GetTaskStatus(c[1], c[2], id, readOk)

SpecTasks == Init /\ [][NextTasks]_vars

\* Searches of both services (single, batch, query, webhook) between
\* insertions into the stores they read.
QueryLists == {<< >>, <<<<0>>, NoEmbedding>>}
NextFrame ==
    \/ ProcessSingleDocument("u1", TextDoc(<<0>>), TRUE)
    \/ \E q \in {<<0>>, NoEmbedding} : Search("u1", q, 2, TRUE, {}, "ok")
    \/ \E queries \in QueryLists :
          BatchSearch("u1", queries, 2, TRUE, {}, "ok")
    \/ upload_document(PdfFile(TextDoc(<<0>>)))
    \/ \E doc_id \in 1 .. MaxDocs : process_document(doc_id)
    \/ \E gen \in {"ok", "fail"} : query_documents(<<0>>, 2, gen)
    \/ \E hasQuery \in BOOLEAN : n8n_query_webhook(hasQuery, <<0>>, "ok")

SpecFrame == Init /\ [][NextFrame]_vars

\* api.py: uploads, their background processing, queries and clears.
NextClear ==
    \/ \E file \in {PdfFile(TextDoc(<<0>>)), PdfFile(TextDoc(<<1, 1>>))} :
          upload_document(file)
    \/ \E doc_id \in 1 .. MaxDocs : process_document(doc_id)
    \/ \E gen \in {"ok", "fail"} : query_documents(<<0>>, 2, gen)
    \/ \E hasQuery \in BOOLEAN : n8n_query_webhook(hasQuery, <<0>>, "ok")
    \/ clear_all_documents

SpecClear == Init /\ [][NextClear]_vars

\* Inserts into one user's index by two server processes, step by step,
\* and searches between the steps.
NextWriters ==
    \/ \E p \in Procs : BeginSave(p, "u1")
    \/ \E p \in Procs : WriteIndex(p)
    \/ \E p \in Procs : DumpMetadata(p)
    \/ \E k \in {1, 2} : Search("u1", <<0>>, k, FALSE, {}, "ok")

SpecWriters == Init /\ [][NextWriters]_vars

\* Documents with items that lack an embedding, and one whose text has a
\* vector of another dimension. Only the first yields an image record with
\* the vector <<0>>, only the second a text record with the vector <<0>>.
ItemDocs ==
    {[decodable |-> TRUE, hasText |-> TRUE, textEmb |-> NoEmbedding,
      pageEmbs |-> <<<<0>>>>],
     [decodable |-> TRUE, hasText |-> TRUE, textEmb |-> <<0>>,
      pageEmbs |-> <<NoEmbedding>>],
     [decodable |-> TRUE, hasText |-> TRUE, textEmb |-> <<1>>,
      pageEmbs |-> <<<<1>>>>],
     [decodable |-> TRUE, hasText |-> TRUE, textEmb |-> NoEmbedding,
      pageEmbs |-> <<NoEmbedding>>],
     TextDoc(<<1, 1>>)}
NextItems ==
    \E doc \in ItemDocs, dbOk \in BOOLEAN :
        ProcessSingleDocument("u1", doc, dbOk)

SpecItems == Init /\ [][NextItems]_vars

\* Searches with filters over stores of text and image records.
FilterDocs ==
    {TextDoc(<<0>>), TextDoc(<<1>>),
     [decodable |-> TRUE, hasText |-> FALSE, textEmb |-> NoEmbedding,
      pageEmbs |-> <<<<1>>>>],
     [decodable |-> TRUE, hasText |-> TRUE, textEmb |-> <<1>>,
      pageEmbs |-> <<<<0>>>>]}
NextFilter ==
    \/ \E doc \in FilterDocs : ProcessSingleDocument("u1", doc, TRUE)
    \/ \E q \in {<<0>>, <<1>>}, k \in {1, 20}, filters \in Filters :
          Search("u1", q, k, FALSE, filters, "ok")

SpecFilter == Init /\ [][NextFilter]_vars

\* ------------------------------------------------------------- claims
\* The first item of a result list with the given content type, as a list
\* of at most one element.
\* C1: an insert batch is all-or-nothing. After _process_single_document
\* handed a batch of n records to _save_embeddings: when the save returned,
\* the persisted vector count and the persisted metadata count have each
\* grown by exactly n; when the batch's dimension differs from the existing
\* index's, the call raised and both counts are what they were.
C1_BatchAllOrNothing ==
    resp.op = "process" =>
        /\ resp.error \in {"none", "db"} =>
              /\ SlotCount(resp.user) = resp.preSlots + resp.n
              /\ MetaCount(resp.user) = resp.preMeta + resp.n
        /\ (resp.preSlots > 0 /\ resp.n > 0 /\ resp.dims # {resp.preDim}) =>
              resp.error = "save"
        /\ resp.error = "save" =>
              /\ SlotCount(resp.user) = resp.preSlots
              /\ MetaCount(resp.user) = resp.preMeta

\* C1 witness: a batch of two vectors of one dimension was rejected by an
\* index that holds vectors of another dimension.
C1_Witness ==
    /\ resp.op = "process" /\ resp.error = "save"
    /\ resp.preSlots > 0 /\ resp.n = 2
    /\ Cardinality(resp.dims) = 1 /\ resp.dims # {resp.preDim}

\* C2: in every state between insert batches, each user's persisted index
\* holds as many vectors as the user's persisted metadata list has entries
\* (and the two files exist together).
C2_SlotCountIsMetaCount ==
    \A u \in Users :
        /\ SlotCount(u) = MetaCount(u)
        /\ indexFile[u].exists = metaFile[u].exists

\* C2 witness: a rejected batch after two successful records.
C2_Witness ==
    /\ resp.op = "process" /\ resp.error = "save"
    /\ SlotCount("u1") = 2 /\ MetaCount("u1") = 2

\* C3: a result list is ordered nearest first, results of equal distance
\* in ascending slot order; this is the order of the unfiltered ranking, so
\* dropping candidates keeps the relative order of the others.
C3_NearestFirstTiesBySlot ==
    resp.op = "search" =>
        \A i, j \in 1 .. Len(resp.results) :
            i < j =>
                \/ resp.results[i].score < resp.results[j].score
                \/ /\ resp.results[i].score = resp.results[j].score
                   /\ resp.results[i].slot < resp.results[j].slot

\* C3 witness: all three stored vectors were asked for, one candidate was
\* dropped, and the two results left are a tie.
C3_Witness ==
    /\ resp.op = "search" /\ resp.k = 20
    /\ SlotCount(resp.user) = 3
    /\ Len(resp.results) = 2
    /\ resp.results[1].score = resp.results[2].score

\* C4 (the claim as stated): whenever evidence is handed to the answer
\* generator it is the nearest image result if the results hold an image,
\* else the nearest text result; with no results nothing is generated.
C4_ImageEvidencePreferred ==
    resp.op \in {"search", "query"} =>
        /\ resp.generated =>
              resp.evidence =
                  (IF FirstOfType(resp.results, "image") # << >>
                   THEN FirstOfType(resp.results, "image")
                   ELSE FirstOfType(resp.results, "text"))
        /\ resp.results = << >> => ~resp.generated

QueryOps == {"search", "n8n_search", "query", "n8n_query"}

\* C5: a query against an index that is empty or was never created returns
\* an empty result list with a not-found outcome: a normal response, no
\* results, no answer generation attempted, no error raised to the caller.
C5_EmptyIndexNotFound ==
    (resp.op \in QueryOps /\ resp.indexEmpty) =>
        /\ resp.status = 200
        /\ resp.error = "none"
        /\ resp.results = << >>
        /\ ~resp.generated

\* C6: a query whose k is not in 1 .. 20 is rejected with an
\* invalid-argument error at every query entry point, before any embedding,
\* search or generation is performed.
C6_TopKRangeEnforced ==
    (resp.op \in QueryOps /\ resp.status # 401 /\ ~ValidTopK(resp.k)) =>
        /\ (resp.status \in {400, 422} \/ resp.error = "failed")
        /\ ~resp.embedded
        /\ ~resp.searched
        /\ ~resp.generated

\* C7: when answer generation fails the query still returns normally with
\* its ranked results and no generated answer.
C7_GenerationFailureDegrades ==
    resp.genFailed =>
        /\ resp.status = 200
        /\ resp.results # << >>
        /\ resp.answer # "generated"

UploadOps == {"upload", "n8n_upload", "app_upload"}

\* C9: an upload request that carries a file whose name does not end in
\* .pdf is answered with HTTP 400 on every upload entry point, and no
\* processing task is created for it.
C9_NonPdfRejected ==
    (resp.op \in UploadOps /\ resp.nonPdf /\ resp.status # 401) =>
        /\ resp.status = 400
        /\ ~resp.taskCreated

GuardedOps == {"upload", "list", "delete", "task", "search"}

ServedInWindow(u, t) ==
    {i \in 1 .. Len(served) :
        /\ served[i].user = u
        /\ served[i].time > t - WindowSize
        /\ served[i].time <= t}

\* C11: for each user, at most limit_per_minute requests are admitted in any
\* sliding window of window_size seconds, and a request that is answered
\* with 429 did not run its handler.
C11_WindowLimitHeld ==
    /\ \A u \in Users, t \in 0 .. MaxTime :
          Cardinality(ServedInWindow(u, t)) <= RateLimitPerMinute
    /\ resp.status = 429 => ~resp.ran

\* C12: a task-status request returns a task only when a task with that id
\* exists and is owned by the requesting user, and then it is that task; for
\* a missing id or a task of another user the answer is 404 and no task is
\* disclosed.
C12_TaskOnlyToOwner ==
    (resp.op = "task" /\ resp.ran) =>
        LET owned == {t \in tasks : t.id = resp.task_id
                                    /\ t.user_id = resp.user}
        IN  /\ resp.status \in {200, 404}
            /\ resp.status = 200 => (resp.task # {} /\ resp.task \subseteq owned)
            /\ owned = {} => resp.status = 404
            /\ resp.status = 404 => resp.task = {}

\* The requester asked for an existing task of another user and got 404.
C12_Witness ==
    /\ resp.op = "task" /\ resp.ran /\ resp.status = 404
    /\ \E t \in tasks : t.id = resp.task_id /\ t.user_id # resp.user

\* C13: once delete_document has reported a document deleted, no search
\* returns a result whose parent document is that document.
C13_DeletedNeverReturned ==
    resp.op \in {"search", "n8n_search"} =>
        \A i \in 1 .. Len(resp.results) : resp.results[i].source \notin deleted


C15_CrashKeepsCounts ==
    resp.op = "interrupted" =>
        /\ SlotCount(resp.user) = MetaCount(resp.user)
        /\ indexFile[resp.user].exists = metaFile[resp.user].exists


\* C16: a search operation (single, batch, query or webhook query), whatever
\* its outcome, leaves the persisted index file, the persisted metadata list
\* and the in-memory index and metadata unchanged.
SearchOps == {"search", "batch_search", "query", "n8n_query"}
C16_SearchChangesNothing ==
    [][(resp' # resp /\ resp'.op \in SearchOps) =>
           UNCHANGED <<indexFile, metaFile, dataDir, faiss_index, docs_info>>]_vars

\* C16 witness: a batch search that returned results for a stored index,
\* and, in the other service, a loaded in-memory index.
C16_Witness ==
    /\ resp.op = "batch_search" /\ Len(resp.batch) = 2
    /\ resp.batch[1].results # << >>
    /\ resp.batch[2].results = << >>
    /\ ~faiss_index.isNone /\ docs_info # << >>


\* C17: every search result's similarity equals 1/(1+distance) of its match
\* (as a fraction num/den), lies in (0,1], and is non-increasing in distance:
\* of two results, the one with the larger distance never has the larger
\* similarity.
C17_SimilarityOfDistance ==
    resp.op = "search" =>
        LET r == resp.results
        IN  /\ \A i \in 1 .. Len(r) :
                  /\ r[i].similarity_score.den > 0
                  /\ r[i].similarity_score.num * (1 + r[i].score)
                     = r[i].similarity_score.den
                  /\ r[i].similarity_score.num > 0
                  /\ r[i].similarity_score.num <= r[i].similarity_score.den
            /\ \A i, j \in 1 .. Len(r) :
                  r[i].score > r[j].score =>
                      r[i].similarity_score.num * r[j].similarity_score.den
                      <= r[j].similarity_score.num * r[i].similarity_score.den

\* C17 witness: two results, an exact match and one farther away.
C17_Witness ==
    /\ resp.op = "search" /\ Len(resp.results) = 2
    /\ resp.results[1].score = 0
    /\ resp.results[2].score > 0


\* C18: clear empties both structures. When clear_all_documents returns the
\* index is unset, the metadata list is empty and the status table is empty;
\* and until a document uploaded after the clear has been processed the index
\* stays unset, the metadata list stays empty, and every query that is
\* answered reports that no documents are indexed.
C18_ClearEmptiesAll ==
    /\ resp.op = "clear" =>
          /\ faiss_index.isNone /\ docs_info = << >>
          /\ processing_status = {}
    /\ clearLog.cleared =>
          /\ faiss_index.isNone /\ docs_info = << >>
          /\ resp.op \in {"query", "n8n_query"} =>
                /\ resp.status = 400 /\ resp.results = << >>
                /\ resp.error = "no_index"
                   \/ (resp.op = "n8n_query" /\ resp.error = "none")

\* C18 witness: after a clear, the process_document call of a document
\* uploaded before it has just run, and the index is still unset.
C18_Witness ==
    /\ clearLog.cleared /\ resp.op = "background"
    /\ clearLog.stale = {} /\ bgTasks = {}
    /\ faiss_index.isNone


\* C19: inserts on one user's index are serialized, so none is lost: when no
\* insert is in progress, every batch whose insert returned has its records
\* in the persisted metadata, and the index holds as many vectors as the
\* metadata has entries.
C19_NoLostInsert ==
    (\A p \in Procs : writers[p].phase = "idle") =>
        /\ \A p \in Procs : \A id \in writers[p].done :
              \E i \in 1 .. MetaCount("u1") :
                  metaFile["u1"].items[i].parent_doc_id = id
        /\ SlotCount("u1") = MetaCount("u1")


\* C20: a search running while inserts are in progress observes no torn
\* write: it does not fail, and every result it returns pairs the matched
\* vector with the metadata of the record that vector was stored for (a
\* matched slot without a metadata entry is dropped). The processes store
\* vectors that tell their documents apart (WriterDoc), and the query is
\* <<0>>, so the distance of a result tells whose vector was matched.
WriterIds(p) ==
    writers[p].done
    \cup (IF writers[p].phase = "idle" THEN {} ELSE {writers[p].doc_id})
C20_SearchSeesNoTornWrite ==
    resp.op = "search" =>
        /\ resp.status = 200 /\ resp.answer # "error"
        /\ \A i \in 1 .. Len(resp.results) :
              /\ \E p \in Procs : resp.results[i].source \in WriterIds(p)
              /\ \A p \in Procs :
                    resp.results[i].source \in WriterIds(p) =>
                        resp.results[i].score
                        = L2Sq(WriterDoc(p).textEmb, <<0>>)


\* C21: every task created by an upload leaves the pending state: once the
\* run of process_documents_async for it has finished, its recorded status
\* is completed or failed, and a completed task has progress 100.
C21_TaskLeavesPending ==
    (run.done /\ run.kind = "api") =>
        \A t \in tasks :
            t.id = run.task =>
                /\ t.status \in {"completed", "failed"}
                /\ t.status = "completed" => t.progress = 100


\* C22: while one document is processed, an item (the text, or a page
\* image) without an embedding is skipped and every other item is inserted:
\* the records the call appended are exactly the items that had an
\* embedding, text first and pages in order, each with its vector, and their
\* number is text_chunks + image_chunks of the document.
AvailablePages(doc) ==
    {p \in 1 .. Len(doc.pageEmbs) : doc.pageEmbs[p] # NoEmbedding}
InsertedAvailableItems(doc) ==
    LET u == resp.user
        hasTextItem == doc.hasText /\ doc.textEmb # NoEmbedding
        first == IF hasTextItem THEN 1 ELSE 0
        added == SlotCount(u) - resp.preSlots
        NewMeta(j) == metaFile[u].items[resp.preMeta + j]
        NewVec(j) == indexFile[u].vecs[resp.preSlots + j]
    IN  /\ added = first + Cardinality(AvailablePages(doc))
        /\ added = text_chunks(doc) + image_chunks(doc)
        /\ MetaCount(u) - resp.preMeta = added
        /\ hasTextItem =>
              /\ NewMeta(1).content_type = "text"
              /\ NewVec(1) = doc.textEmb
        /\ \A p \in AvailablePages(doc) :
              \E j \in first + 1 .. added :
                  /\ NewMeta(j).content_type = "image"
                  /\ NewMeta(j).page = p
                  /\ NewVec(j) = doc.pageEmbs[p]
C22_UnavailableItemsSkipped ==
    [][\A doc \in ItemDocs, dbOk \in BOOLEAN :
          (ProcessSingleDocument("u1", doc, dbOk) /\ resp'.error = "none")
              => InsertedAvailableItems(doc)']_vars

\* C22 witness: the page of a document whose text had no embedding has just
\* been inserted as the only record of its call (an image record with the
\* vector <<0>> comes from that document alone).
C22_Witness ==
    /\ resp.op = "process" /\ resp.error = "none" /\ resp.n = 1
    /\ SlotCount(resp.user) = resp.preSlots + 1
    /\ metaFile[resp.user].items[SlotCount(resp.user)].content_type = "image"
    /\ indexFile[resp.user].vecs[SlotCount(resp.user)] = <<0>>
    /\ resp.preSlots > 0


\* C23: slot assignment is stable. An insert never changes, removes or
\* reorders what the index already holds: every slot below the pre-insert
\* count keeps its vector and its metadata; and the n records of a batch
\* that was saved occupy the slots count .. count+n-1 in batch order.
C23_SlotsStable ==
    [][/\ \A u \in Users :
             /\ SlotCount(u)' >= SlotCount(u)
             /\ MetaCount(u)' >= MetaCount(u)
             /\ \A i \in 1 .. SlotCount(u) :
                   indexFile'[u].vecs[i] = indexFile[u].vecs[i]
             /\ \A i \in 1 .. MetaCount(u) :
                   metaFile'[u].items[i] = metaFile[u].items[i]
       /\ \A doc \in ItemDocs, dbOk \in BOOLEAN :
             (/\ ProcessSingleDocument("u1", doc, dbOk)
              /\ resp'.error \in {"none", "db"}) =>
                 LET batch == EmbeddingsData(FreshDocId, doc)
                 IN  \A j \in 1 .. Len(batch) :
                        /\ indexFile'["u1"].vecs[SlotCount("u1") + j]
                           = batch[j].embedding
                        /\ metaFile'["u1"].items[MetaCount("u1") + j].doc_id
                           = batch[j].doc_id
                        /\ metaFile'["u1"].items[MetaCount("u1") + j].page
                           = batch[j].page
      ]_vars

\* C23 witness: a batch of two records has been appended behind a record
\* that was there before.
C23_Witness ==
    /\ resp.op = "process" /\ resp.error = "none"
    /\ resp.preSlots = 1 /\ resp.n = 2
    /\ SlotCount("u1") = 3 /\ MetaCount("u1") = 3


\* C24: when filters are supplied to a search, every returned result matches
\* every filter: for each filter key the metadata of the result has a value
\* under that key, equal to the filter value when it is a scalar and a
\* member of it when it is a list.
MatchesFilter(meta, f) ==
    /\ f.key \in MetaKeys
    /\ IF f.isList THEN meta[f.key] \in f.value ELSE meta[f.key] = f.value
C24_ResultsMatchFilters ==
    [][\A q \in {<<0>>, <<1>>}, k \in {1, 20}, filters \in Filters :
          Search("u1", q, k, FALSE, filters, "ok") =>
              \A i \in 1 .. Len(resp'.results) :
                  \A f \in filters :
                      MatchesFilter(
                          metaFile["u1"].items[resp'.results[i].slot + 1], f)
      ]_vars

\* C24 as the code has it: every returned result matches every filter whose
\* key its metadata carries (equal to a scalar value, member of a list
\* value), and no record failing such a filter is returned; a filter on a
\* key the metadata does not carry excludes nothing.
C24_ResultsMatchKnownFilters ==
    [][\A q \in {<<0>>, <<1>>}, k \in {1, 20}, filters \in Filters :
          Search("u1", q, k, FALSE, filters, "ok") =>
              LET known == {f \in filters : f.key \in MetaKeys}
                  Meta(s) == metaFile["u1"].items[s]
                  returned == {resp'.results[i].slot + 1 :
                                  i \in 1 .. Len(resp'.results)}
                  passing == {s \in 1 .. MetaCount("u1") :
                                 \A f \in known : MatchesFilter(Meta(s), f)}
              IN  /\ returned \subseteq passing
                  /\ k >= SlotCount("u1") =>
                        returned = passing \cap (1 .. SlotCount("u1"))
      ]_vars

\* C24 witness: a search over text and image records returned the image
\* records only.
C24_Witness ==
    /\ resp.op = "search" /\ resp.results # << >>
    /\ \A i \in 1 .. Len(resp.results) :
          resp.results[i].content_type = "image"
    /\ \E i \in 1 .. MetaCount("u1") :
          metaFile["u1"].items[i].content_type = "text"
    /\ resp.k = 20


\* ------------------------------------------------------- TaskManager
\* TaskStatus. "None" stands for an argument left at its default None.
TaskStatuses == {"pending", "processing", "completed", "failed"}
TerminalStatuses == {"completed", "failed"}
ActiveStatuses == {"pending", "processing"}

\* max(0.0, min(100.0, progress))
ClampProgress(progress) ==
    IF progress > 100 THEN 100 ELSE IF progress < 0 THEN 0 ELSE progress

\* The field updates of update_task_progress on the row it found, in the
\* order the code makes them.
UpdatedTask(task, progress, status, error_message) ==
    LET a == [task EXCEPT !.progress = ClampProgress(progress)]
        b == IF status # "None" THEN [a EXCEPT !.status = status] ELSE a
        c == IF status = "completed"
             THEN [b EXCEPT !.completed_at = "utcnow", !.progress = 100]
             ELSE b
    IN  IF error_message # "None"
        THEN [c EXCEPT !.error_message = error_message, !.status = "failed"]
        ELSE c

\* The tasks table after the rows in ids were updated and committed.
TasksUpdated(ids, progressOf, status, error_message) ==
    {IF t.id \in ids
     THEN UpdatedTask(t, progressOf[t.id], status, error_message)
     ELSE t : t \in tasks}

\* TaskManager.create_document_processing_task(files, user_id).
create_document_processing_task(user_id) ==
    /\ Cardinality(tasks) + 1 \in TaskIds
    /\ tasks' = tasks \cup {NewTask(user_id)}
    /\ UNCHANGED <<resp, writers, clearLog, deleted, rateVars, appVars, indexFile,
                   metaFile, documents, users, issued, run>>

\* TaskManager.update_task_progress(task_id, progress, status,
\* error_message=error_message). dbOk: the session and its commit work;
\* otherwise the except clause returns False and nothing is written.
update_task_progress(task_id, progress, status, error_message, dbOk) ==
    /\ tasks' = IF dbOk
                THEN TasksUpdated({task_id}, [i \in TaskIds |-> progress],
                                  status, error_message)
                ELSE tasks
    /\ UNCHANGED <<resp, writers, clearLog, deleted, rateVars, appVars,
                   indexFile, metaFile, documents, users, issued, run>>

\* TaskManager.cancel_task(task_id, user_id).
cancel_task(task_id, user_id, dbOk) ==
    LET found == {t \in tasks : /\ t.id = task_id
                                /\ t.user_id = user_id
                                /\ t.status \in ActiveStatuses}
    IN  /\ tasks' = IF dbOk
                    THEN {IF t \in found
                          THEN [t EXCEPT
                                  !.status = "failed",
                                  !.error_message = "Task cancelled by user"]
                          ELSE t : t \in tasks}
                    ELSE tasks
        /\ UNCHANGED <<resp, writers, clearLog, deleted, rateVars, appVars,
                       indexFile, metaFile, documents, users, issued, run>>

\* TaskManager.get_active_tasks(): the pending and processing rows, or
\* nothing when the query raises.
get_active_tasks(dbOk) ==
    IF dbOk THEN {t \in tasks : t.status \in ActiveStatuses} ELSE {}

\* TaskManager.cleanup() at shutdown: every active task is updated with
\* its own progress, status failed and error_message "System shutdown".
\* written: the tasks whose update was committed (an update that raises
\* returns False and the loop goes on).
cleanup(dbOk) ==
    \E written \in SUBSET {t.id : t \in get_active_tasks(dbOk)} :
        /\ tasks' = TasksUpdated(written,
                                 [i \in TaskIds |->
                                    IF \E t \in tasks : t.id = i
                                    THEN (CHOOSE t \in tasks : t.id = i).progress
                                    ELSE 0],
                                 "failed", "System shutdown")
        /\ UNCHANGED <<resp, writers, clearLog, deleted, rateVars, appVars,
                       indexFile, metaFile, documents, users, issued, run>>

\* The task table under any sequence of TaskManager operations.
ProgressInputs == {-5, 50, 150}
NextTaskOps ==
    \/ \E user_id \in Users : create_document_processing_task(user_id)
    \/ \E task_id \in TaskIds, progress \in ProgressInputs,
          status \in TaskStatuses \cup {"None"},
          error_message \in {"None", "error"}, dbOk \in BOOLEAN :
          update_task_progress(task_id, progress, status, error_message,
                               dbOk)
    \/ \E task_id \in TaskIds, user_id \in Users, dbOk \in BOOLEAN :
          cancel_task(task_id, user_id, dbOk)
    \/ \E dbOk \in BOOLEAN : cleanup(dbOk)

SpecTaskOps == Init /\ [][NextTaskOps]_vars


\* C25: terminal task states are absorbing: once a task's status is
\* completed or failed, no TaskManager operation (update_task_progress,
\* cancel_task, cleanup) changes its status again.
C25_TerminalAbsorbing ==
    [][\A t \in tasks :
          t.status \in TerminalStatuses =>
              \E t2 \in tasks' : t2.id = t.id /\ t2.status = t.status]_vars


\* C26: in every task state the progress is within [0, 100], and a task
\* whose status is completed has progress exactly 100 and a completed_at
\* timestamp set.
C26_ProgressAndCompletion ==
    \A t \in tasks :
        /\ t.progress >= 0 /\ t.progress <= 100
        /\ t.status = "completed" =>
              (t.progress = 100 /\ t.completed_at # "None")


\* ------------------------------------------------------- AuthService
\* generate_api_key(): secrets.token_urlsafe(32), a key no earlier call
\* returned (the n-th key handed out is KeyNames[n]).
KeyNames == <<"k1", "k2", "k3", "k4", "k5", "k6", "k7">>
generate_api_key == KeyNames[Len(issued.log) + 1]
AllKeys == {KeyNames[i] : i \in 1 .. Len(KeyNames)} \cup {"bad"}

\* The ids the database gives to rows create_user adds.
NewUserIds == {"u3"}
AllUsers == Users \cup NewUserIds

AuthResp(op, user_id, api_key, status) ==
    [NoResp EXCEPT !.op = op, !.user = user_id, !.cred = api_key,
                   !.status = status]

\* AuthService.create_user(email): a new active row with the hash of a new
\* key; the key is returned. dbOk: the commit works, else it raises.
create_user(id, dbOk) ==
    /\ id \notin DOMAIN users
    /\ Len(issued.log) < MaxKeys
    /\ IF dbOk
       THEN /\ users' = [u \in DOMAIN users \cup {id} |->
                           IF u = id
                           THEN [api_key_hash |-> hash_api_key(generate_api_key),
                                 is_active |-> TRUE]
                           ELSE users[u]]
            /\ issued' = [issued EXCEPT
                            !.log = Append(@, <<id, generate_api_key>>)]
            /\ resp' = AuthResp("create_user", "u1", generate_api_key, 0)
       ELSE /\ UNCHANGED <<users, issued>>
            /\ resp' = AuthResp("create_user", "u1", "", 500)
    /\ UNCHANGED <<writers, clearLog, deleted, rateVars, appVars, indexFile,
                   metaFile, documents, tasks, run>>

\* AuthService.validate_api_key(api_key) called by a request.
ValidateApiKey(api_key, dbUp) ==
    LET found == validate_api_key(api_key, dbUp)
    IN  /\ resp' = IF found = {}
                   THEN AuthResp("validate_api_key", "u1", api_key, 401)
                   ELSE AuthResp("validate_api_key",
                                 CHOOSE u \in found : TRUE, api_key, 0)
        /\ UNCHANGED <<writers, clearLog, deleted, rateVars, appVars,
                       apiVars>>

\* AuthService.revoke_api_key(user_id): True when the row exists and the
\* commit worked.
revoke_api_key(user_id, dbOk) ==
    /\ IF dbOk /\ user_id \in DOMAIN users
       THEN /\ users' = [users EXCEPT ![user_id].is_active = FALSE]
            /\ issued' = [issued EXCEPT !.revoked = @ \cup {user_id}]
            /\ resp' = AuthResp("revoke_api_key", "u1", "", 0)
       ELSE /\ UNCHANGED <<users, issued>>
            /\ resp' = AuthResp("revoke_api_key", "u1", "", 404)
    /\ UNCHANGED <<writers, clearLog, deleted, rateVars, appVars, indexFile,
                   metaFile, documents, tasks, run>>

\* Mutant: the refreshed row is made active again.
refresh_api_key_reactivating(user_id, dbOk) ==
    /\ Len(issued.log) < MaxKeys
    /\ IF dbOk /\ user_id \in DOMAIN users
       THEN /\ users' = [users EXCEPT
                           ![user_id] = [api_key_hash |->
                                            hash_api_key(generate_api_key),
                                         is_active |-> TRUE]]
            /\ issued' = [issued EXCEPT
                            !.log = Append(@, <<user_id, generate_api_key>>)]
            /\ resp' = AuthResp("refresh_api_key", user_id,
                                generate_api_key, 0)
       ELSE /\ UNCHANGED <<users, issued>>
            /\ resp' = AuthResp("refresh_api_key", "u1", "", 404)
    /\ UNCHANGED <<writers, clearLog, deleted, rateVars, appVars, indexFile,
                   metaFile, documents, tasks, run>>

\* AuthService.refresh_api_key(user_id): the row's hash is replaced by the
\* hash of a new key, which is returned; None when the row is missing or
\* the commit raises.
refresh_api_key(user_id, dbOk) ==
    /\ Len(issued.log) < MaxKeys
    /\ IF dbOk /\ user_id \in DOMAIN users
       THEN /\ users' = [users EXCEPT
                           ![user_id].api_key_hash =
                               hash_api_key(generate_api_key)]
            /\ issued' = [issued EXCEPT
                            !.log = Append(@, <<user_id, generate_api_key>>)]
            /\ resp' = AuthResp("refresh_api_key", user_id,
                                generate_api_key, 0)
       ELSE /\ UNCHANGED <<users, issued>>
            /\ resp' = AuthResp("refresh_api_key", "u1", "", 404)
    /\ UNCHANGED <<writers, clearLog, deleted, rateVars, appVars, indexFile,
                   metaFile, documents, tasks, run>>

\* The users table under any sequence of AuthService operations.
NextAuth ==
    \/ \E id \in NewUserIds, dbOk \in BOOLEAN : create_user(id, dbOk)
    \/ \E api_key \in AllKeys, dbUp \in BOOLEAN :
          ValidateApiKey(api_key, dbUp)
    \/ \E user_id \in AllUsers, dbOk \in BOOLEAN :
          revoke_api_key(user_id, dbOk)
    \/ \E user_id \in AllUsers, dbOk \in BOOLEAN :
          refresh_api_key(user_id, dbOk)

SpecAuth == Init /\ [][NextAuth]_vars


\* C28: after any sequence of create_user, refresh_api_key and
\* revoke_api_key calls, validate_api_key(k) returns user u exactly when k
\* is the key most recently issued to u and u has not been revoked; a key
\* replaced by refresh, and every key of a revoked user, never
\* authenticates.
IssuedTo(u) == {i \in 1 .. Len(issued.log) : issued.log[i][1] = u}
LatestKey(u) == issued.log[SetMax(IssuedTo(u))][2]
Authenticates(k) ==
    {u \in AllUsers : /\ IssuedTo(u) # {}
                      /\ LatestKey(u) = k
                      /\ u \notin issued.revoked}
C28_LatestKeyOfActiveUser ==
    /\ \A k \in AllKeys :
          /\ validate_api_key(k, TRUE) = Authenticates(k)
          /\ validate_api_key(k, FALSE) = {}
    /\ resp.op = "validate_api_key" =>
          /\ resp.status = 0 => resp.user \in Authenticates(resp.cred)
          /\ resp.status # 0 => resp.status = 401
    /\ \A i \in 1 .. Len(issued.log) :
          LET u == issued.log[i][1]
              k == issued.log[i][2]
          IN  (i # SetMax(IssuedTo(u)) \/ u \in issued.revoked) =>
                  validate_api_key(k, TRUE) = {}

\* The key u1 got from refresh_api_key authenticated, after a user was
\* created and revoked.
C28_Witness ==
    /\ resp.op = "validate_api_key" /\ resp.status = 0
    /\ resp.user = "u1" /\ resp.cred # "k1"
    /\ "u3" \in issued.revoked


\* Insertions and searches of both users.
IsolationDocs == {TextDoc(<<0>>), TextDoc(<<1>>)}
NextIsolation ==
    \/ \E u \in Users, doc \in IsolationDocs,
          dbOk \in BOOLEAN : ProcessSingleDocument(u, doc, dbOk)
    \/ \E u \in Users, k \in {1, 20} :
          Search(u, <<0>>, k, FALSE, {}, "ok")

SpecIsolation == Init /\ [][NextIsolation]_vars


\* C27: search results are isolated per user: a search for user A returns
\* only records inserted by uploads made for user A, whatever other users
\* upload and search. An insertion for a user leaves every other user's
\* index and metadata file as they were and adds only records of its own
\* new document id to the user's file; the files of two users hold no
\* document id in common; every result of a search for a user is a record
\* of a document in that user's file, owned by the user in the documents
\* table when the table has a row for it.
DocIdsOf(u) ==
    {metaFile[u].items[i].parent_doc_id : i \in 1 .. MetaCount(u)}
C27_InsertStaysWithUser ==
    \A u \in Users, doc \in IsolationDocs, dbOk \in BOOLEAN :
        ProcessSingleDocument(u, doc, dbOk) =>
            /\ \A v \in Users \ {u} :
                  /\ indexFile'[v] = indexFile[v]
                  /\ metaFile'[v] = metaFile[v]
            /\ \A i \in 1 .. Len(metaFile'[u].items) :
                  \/ /\ i <= MetaCount(u)
                     /\ metaFile'[u].items[i] = metaFile[u].items[i]
                  \/ /\ i > MetaCount(u)
                     /\ metaFile'[u].items[i].parent_doc_id = FreshDocId
                     /\ \A v \in Users : FreshDocId \notin DocIdsOf(v)
C27_ResultsOfOwnUser ==
    /\ \A u \in Users, v \in Users :
          u # v => DocIdsOf(u) \cap DocIdsOf(v) = {}
    /\ \A d \in documents, u \in Users :
          d.id \in DocIdsOf(u) => d.user_id = u
    /\ resp.op = "search" =>
          \A i \in 1 .. Len(resp.results) :
              /\ resp.results[i].source \in DocIdsOf(resp.user)
              /\ \A v \in Users \ {resp.user} :
                    resp.results[i].source \notin DocIdsOf(v)
C27_SearchIsolated ==
    []C27_ResultsOfOwnUser /\ [][C27_InsertStaysWithUser]_vars

\* A search for u2 returned u2's record while u1's file holds a record that
\* is at least as near to the query.
C27_Witness ==
    /\ resp.op = "search" /\ resp.user = "u2" /\ Len(resp.results) = 1
    /\ MetaCount("u1") > 0 /\ MetaCount("u2") = 1
    /\ \E i \in 1 .. SlotCount("u1") :
          L2Sq(indexFile["u1"].vecs[i], <<0>>) = 0
    /\ resp.results[1].score > 0



\* C29: every document id returned by upload_document gets a terminal
\* status: under any interleaving with other uploads and with
\* clear_all_documents, when its process_document run ends its
\* processing_status entry is completed or failed (the except clause
\* recorded the failure, no exception escaped), and an entry is at
\* processing only while its run is still to come.
C29_RunEndsTerminal ==
    \A doc_id \in 1 .. MaxDocs :
        process_document(doc_id) =>
            \E st \in processing_status' :
                st.id = doc_id /\ st.status \in {"completed", "failed"}
C29_NoneLeftProcessing ==
    \A st \in processing_status :
        st.status = "processing" => st.id \in bgTasks
C29_EveryUploadTerminal ==
    []C29_NoneLeftProcessing /\ [][C29_RunEndsTerminal]_vars


\* C30: a failed document upload leaves the shared in-memory state as it
\* was: when process_document ends with status failed, docs_info and the
\* index are what they were before the run, and at all times the metadata
\* list has one entry per vector of the index.
AppIndexSize == IF faiss_index.isNone THEN 0 ELSE Len(faiss_index.vecs)
C30_FailedRunChangesNothing ==
    \A doc_id \in 1 .. MaxDocs :
        (/\ process_document(doc_id)
         /\ \E st \in processing_status' :
               st.id = doc_id /\ st.status = "failed") =>
            /\ docs_info' = docs_info
            /\ faiss_index' = faiss_index
C30_EntryPerVector == Len(docs_info) = AppIndexSize
C30_FailedUploadLeavesState ==
    []C30_EntryPerVector /\ [][C30_FailedRunChangesNothing]_vars

====
